---- MODULE Spec2Model ----
(***************************************************************************)
(* Verification model of drone-radio-surveillance: the sweep orchestrator, *)
(* the device loop, the frequency-order buffer and the spectrum store.     *)
(*                                                                         *)
(* Frequencies are integers counted in a fixed unit (a divisor of every    *)
(* frequency and bin width that occurs); order keys are ratios of          *)
(* frequency differences and bin widths and do not depend on the unit.     *)
(***************************************************************************)
EXTENDS Integers, Sequences, FiniteSets, TLC

\* ---------------------------------------------------------------------
\* Bounds
\* ---------------------------------------------------------------------
MaxReadings == 2      \* readings per sweep handed to the store
MaxStoreCalls == 2    \* StoreSweepResult calls of the store client
NumSlots == 6         \* chunk positions of the band fed to the buffer
MaxInserts == 4       \* chunks inserted into the buffer in one run
MaxCapacity == 3      \* largest buffer capacity constructed
MaxTs == 2            \* distinct chunk timestamps
MaxLines == 6         \* lines a child writes to stdout in the reader runs
MaxStops == 2         \* Stop calls issued by the device's client
MaxOrchLines == 2     \* lines a child writes to stdout in the orchestrator runs

MaxRows == 3          \* rows of table samples a reader session holds

MaxReaderFreq == 2    \* highest center frequency of a persisted row, in bin widths

MaxExtraNext == 2     \* calls of Next after the reader returned false

MaxPowerFields == 2   \* power fields of an output line
MaxSessionCalls == 3  \* CreateSession calls issued in one run
MaxClock == 1         \* seconds the database clock advances in one run

\* ---------------------------------------------------------------------
\* Generic helpers
\* ---------------------------------------------------------------------
Range(s) == {s[i] : i \in 1..Len(s)}

SeqsUpTo(S, n) == UNION {[1..k -> S] : k \in 0..n}

Min2(a, b) == IF a <= b THEN a ELSE b

Max2(a, b) == IF a >= b THEN a ELSE b

\* ---------------------------------------------------------------------
\* State
\* ---------------------------------------------------------------------
VARIABLES
  \* ---- store, writer side (store.go) ----
  writeDB,      \* sync.Once state of getWriteDB: "unopened" | "open" | "error"
  dbSamples,    \* committed rows of table samples, in insertion order
  txRows,       \* rows inserted inside the open transaction, not yet committed
  txState,      \* "none" | "open" | "committed" | "rolledback"
  wpc,          \* position of the StoreSweepResult call
  werr,         \* named return value err of StoreSweepResult
  wreq,         \* arguments of the call: sessionID, telemetryID, result
  wi,           \* index of the next reading to insert
  wctxDone,     \* the call's context is cancelled
  wfail,        \* history: what failed in this call ("none" when nothing did)
  handed,       \* history: sweep results handed to StoreSweepResult
  ncalls,       \* number of StoreSweepResult calls issued by the store client
  \* ---- store, reader side (part_016) and table telemetry (store.go) ----
  reader,       \* the SqliteSpectrumReader, its rows and the spans its client took
  tel,          \* telemetry provider and rows of table telemetry
  \* ---- one output line on its way through Handler.Parse to the store ----
  parser,       \* the line, the handler family and what Parse returned
  \* ---- table sessions and the CreateSession calls (store.go) ----
  cs,           \* rows of table sessions, the clock of the database, the calls
  \* ---- a device configuration on its way through Validate and Args ----
  conf          \* the family, the Config, and what Args returned

storeVars == <<writeDB, dbSamples, txRows, txState, wpc, werr, wreq, wi,
               wctxDone, wfail, handed, ncalls, reader, tel, parser, cs, conf>>

VARIABLES
  \* ---- frequency-order buffer driven directly (SweepsBuffer) ----
  sb,           \* the buffer: list, baseFreq, maxFreq, binWidth, capacity, flushCount
  pool,         \* chunks the producer may still insert
  oneShot,      \* TRUE when every chunk of the pool is inserted at most once
  out,          \* the block returned by Flush or Drain when it was the last operation
  lastOp,       \* the last buffer operation: "new" | "insert" | "insert nil" | "flush" | "drain"
  nblocks,      \* number of Flush and Drain calls so far, counted up to 2
  nins,         \* number of Insert calls of a sweep so far
  newArgs,      \* capacity and flushCount handed to NewFrequencyBuffer
  bufErr        \* the error returned by the last buffer call, NilErr when none

bufVars == <<sb, pool, oneShot, out, lastOp, nblocks, nins, newArgs, bufErr>>

VARIABLES
  \* ---- devices and their sampling sessions (part_004) ----
  cfg,          \* run configuration: who calls what (fixed by Init)
  dev,          \* per device: isSampling, cancel, wg, buffer, parseErrorsThreshold
  sess,         \* per BeginSampling caller: the call, its child and its tasks
  stop,         \* per Stop caller: position of the call and what it observed
  nstops,       \* number of Stop calls issued so far
  ctxDone,      \* the context passed to BeginSampling is cancelled
  samplesCh,    \* contents of the sink channel sr
  samplesClosed,\* the sink channel has been closed
  panicked      \* "none", or the reason a goroutine panicked

devVars == <<cfg, dev, sess, stop, nstops, ctxDone, samplesCh, samplesClosed,
             panicked>>

VARIABLES
  \* ---- orchestrator and application (part_023, part_025) ----
  orch          \* Orchestrator.Run, its wait group, the consumer and the store handle

vars == <<storeVars, bufVars, devVars, orch>>

\* ---------------------------------------------------------------------
\* Data model (part_007: PowerReading, SweepResult)
\* ---------------------------------------------------------------------
NilErr == "nil"

PowerReading(f, p, v) == [frequency |-> f, power |-> p, isValid |-> v]

SweepResult(ts, lo, hi, bw, n, rd, device, id) ==
  [timestamp |-> ts, startFrequency |-> lo, endFrequency |-> hi,
   binWidth |-> bw, numSamples |-> n, readings |-> rd,
   device |-> device, deviceID |-> id]

\* sql.NullFloat64 / sql.NullInt64
SqlNull == [valid |-> FALSE, v |-> 0]

SqlVal(x) == [valid |-> TRUE, v |-> x]

\* the optional telemetry id argument (*int64): NoTelemetry is the nil pointer
NoTelemetry == 0

NoRequest == [sessionID |-> 0, telemetryID |-> NoTelemetry,
              result |-> SweepResult(0, 0, 0, 0, 0, <<>>, "", 0)]

\* ---------------------------------------------------------------------
\* Store helpers (helpers.go)
\* ---------------------------------------------------------------------
\* closeWithError: the error of Close is kept only if no error is pending
closeWithError(cErr, err) ==
  IF cErr # NilErr /\ err = NilErr THEN cErr ELSE err

\* rollbackWithError: the error of Rollback is kept only if no error is pending
rollbackWithError(cErr, err) ==
  IF cErr # NilErr /\ err = NilErr THEN cErr ELSE err

\* toSampleData: one row of table samples for one reading of a sweep
toSampleData(sessionID, telemetryID, r, sr) ==
  [session_id   |-> sessionID,
   timestamp    |-> sr.timestamp,
   frequency    |-> r.frequency,
   bin_width    |-> sr.binWidth,
   power        |-> IF r.isValid THEN SqlVal(r.power) ELSE SqlNull,
   num_samples  |-> sr.numSamples,
   telemetry_id |-> IF telemetryID # NoTelemetry THEN SqlVal(telemetryID)
                                                 ELSE SqlNull]

\* stmt.ExecContext on a statement prepared in a transaction: the row goes
\* to the transaction, the table is untouched until commit
ExecAutocommit(table, tx, row) == [table |-> Append(table, row), tx |-> tx]

ExecInTx(table, tx, row) == [table |-> table, tx |-> Append(tx, row)]

\* sql.Tx.Rollback: ErrTxDone once the transaction is committed or rolled back
TxRollbackResult(state) == IF state = "open" THEN NilErr ELSE "ErrTxDone"

\* ---------------------------------------------------------------------
\* Frequency-order buffer (SweepsBuffer, hackrf/device.go 341-579)
\* ---------------------------------------------------------------------
minSpectrumChunksThreshold == 5

\* math.MaxFloat64, the initial baseFreq: above every frequency of the model
MaxFloat64 == 1000000000

\* Go's int(x) of a quotient: truncation toward zero
TruncDiv(a, b) == IF a >= 0 THEN a \div b ELSE -((-a) \div b)

\* NewFrequencyBuffer (367-379), for valid parameters
NewBuffer(capacity, flushCount) ==
  [list |-> <<>>, baseFreq |-> MaxFloat64, maxFreq |-> 0, binWidth |-> 0,
   capacity |-> capacity, flushCount |-> flushCount]

\* the errors of NewFrequencyBuffer (369) and of Insert (386)
ErrBufferParams == "invalid buffer parameters"

ErrNilSweep == "cannot insert nil sweep"

\* the nil *SweepsBuffer: no buffer that was constructed has capacity 0
NoBuffer ==
  [list |-> <<>>, baseFreq |-> 0, maxFreq |-> 0, binWidth |-> 0,
   capacity |-> 0, flushCount |-> 0]

\* a parameter check that lets a flushCount above the capacity through
InvalidParamsNoUpperBound(capacity, flushCount) ==
  capacity <= 0 \/ flushCount <= 0

\* NewFrequencyBuffer (368): the parameters it rejects
InvalidParams(capacity, flushCount) ==
  capacity <= 0 \/ flushCount <= 0 \/ flushCount > capacity

\* NewFrequencyBuffer (367-379): the buffer and the error it returns
NewFrequencyBuffer(capacity, flushCount) ==
  IF InvalidParams(capacity, flushCount)
    THEN [buf |-> NoBuffer, err |-> ErrBufferParams]
    ELSE [buf |-> NewBuffer(capacity, flushCount), err |-> NilErr]

\* Insert (384-387) of a nil sweep: returns before the buffer is locked
InsertNil(b) == [buf |-> b, err |-> ErrNilSweep]

\* SweepResult.CenterFrequency (part_007 29-31), doubled to stay integral
CenterFrequency2(s) == 2 * s.startFrequency + s.binWidth

\* getSweepOrder (497-502)
getSweepOrder(b, s) ==
  TruncDiv(CenterFrequency2(s) - 2 * b.baseFreq, 2 * b.binWidth)

\* compareSweepOrder (523-558)
compareSweepOrder(b, x, y) ==
  LET ac == getSweepOrder(b, x)
      bc == getSweepOrder(b, y)
      rolloverThreshold == TruncDiv(b.maxFreq - b.baseFreq, 2 * b.binWidth)
      wide == TruncDiv(b.maxFreq - b.baseFreq, b.binWidth)
                > minSpectrumChunksThreshold
      ar == wide /\ ac < rolloverThreshold
      br == wide /\ bc < rolloverThreshold
  IN  IF ar /\ br THEN (IF ac >= bc THEN 1 ELSE -1)
      ELSE IF ar THEN 1
      ELSE IF br THEN -1
      ELSE (IF ac >= bc THEN 1 ELSE -1)

\* updateFrequencyRange (570-579)
updateFrequencyRange(b, s) ==
  [b EXCEPT !.baseFreq = IF s.startFrequency < b.baseFreq
                           THEN s.startFrequency ELSE b.baseFreq,
            !.maxFreq  = IF s.endFrequency > b.maxFreq
                           THEN s.endFrequency ELSE b.maxFreq,
            !.binWidth = s.binWidth]

\* an insertion that overwrites element i instead of going behind it
InsertAtReplacing(list, i, x) ==
  SubSeq(list, 1, i - 1) \o <<x>> \o SubSeq(list, i + 1, Len(list))

\* list.InsertAfter (416): x goes behind element i
InsertAt(list, i, x) ==
  SubSeq(list, 1, i) \o <<x>> \o SubSeq(list, i + 1, Len(list))

\* Insert (384-421) of a non-nil sweep
Insert(b0, sweep) ==
  LET b == updateFrequencyRange(b0, sweep)
      n == Len(b.list)
  IN  IF n = 0 THEN [b EXCEPT !.list = <<sweep>>]
      ELSE IF compareSweepOrder(b, sweep, b.list[1]) = -1
        THEN [b EXCEPT !.list = <<sweep>> \o b.list]
      ELSE
        LET stops == {i \in 1..n :
                        i = n \/ compareSweepOrder(b, b.list[i + 1], sweep) = 1}
            e == CHOOSE i \in stops : \A j \in stops : i <= j
            s2 == IF sweep.timestamp < b.list[e].timestamp
                    THEN [sweep EXCEPT !.timestamp = b.list[e].timestamp + 1]
                    ELSE sweep
        IN  [b EXCEPT !.list = InsertAt(b.list, e, s2)]

\* a buffer that counts as full only once it holds more than its capacity
IsFullAboveCapacity(b) == Len(b.list) > b.capacity

\* IsFull (424-429)
IsFull(b) == Len(b.list) >= b.capacity

\* a Flush that never removes the excess over the capacity
FlushCountNoExcess(b) == Min2(b.flushCount, Len(b.list))

\* Flush (434-460): the number of elements removed from the head
FlushCount(b) ==
  LET n == Len(b.list)
      count == b.flushCount + (IF n > b.capacity THEN n - b.capacity ELSE 0)
  IN  Min2(count, n)

\* Drain (464-479) and Flush return the removed block; <<>> stands for nil
FlushBlock(b) == SubSeq(b.list, 1, FlushCount(b))

FlushRest(b) == [b EXCEPT !.list = SubSeq(b.list, FlushCount(b) + 1, Len(b.list))]

DrainBlock(b) == b.list

DrainRest(b) == [b EXCEPT !.list = <<>>]

\* Size (482-486)
Size(b) == Len(b.list)

\* ---------------------------------------------------------------------
\* Device loop (part_004)
\* ---------------------------------------------------------------------
ParseErrorsThreshold == 5

\* a coordinator that expects a result from the two pipe readers only
DoneCapReaders == Cardinality({"handleStdout", "handleStderr"})

\* cap(done): the coordinator expects one result from each of three tasks
DoneCap == 3

Callers == {1, 2}

Stoppers == {1, 2}

Devices == {1, 2}

ErrTooManyParseErrors == "too many consecutive parse errors"

ErrBrokenPipeStdout == "broken pipe: reading stdout"

ErrBrokenPipeStderr == "broken pipe: error reading stderr"

ErrCmdExit == "command exited with error"

NoSweep == SweepResult(0, 0, 0, 0, 0, <<>>, "", 0)

\* one line of the child's standard output, as Handler.Parse sees it
BlankLine == [kind |-> "blank", sweep |-> NoSweep]

BadLine == [kind |-> "bad", sweep |-> NoSweep]

GoodLine(sw) == [kind |-> "good", sweep |-> sw]

\* the device a BeginSampling caller works on: the orchestrator runs one
\* goroutine per device, a direct client calls one device from every thread
DevOf(c) == IF cfg.orch THEN c ELSE 1

\* NewDevice (117-131) with the options of the run
NewDevice(buffered, capacity, flushCount) ==
  [isSampling |-> FALSE, cancel |-> 0, wg |-> 0,
   hasBuffer |-> buffered, buffer |-> NewBuffer(capacity, flushCount),
   parseErrorsThreshold |-> ParseErrorsThreshold]

\* a BeginSampling caller before its call
NewSession(pc) ==
  [bpc |-> pc, ctxDone |-> FALSE, child |-> "none",
   consumed |-> <<>>, parsed |-> <<>>, parseErrors |-> 0,
   tso |-> "none", tnext |-> "scan", scanErr |-> FALSE, outq |-> <<>>,
   sent |-> <<>>, tse |-> "none", tw |-> "none",
   done |-> <<>>, reported |-> {},
   co |-> "none", cnt |-> 0, errs |-> <<>>,
   ssVal |-> <<>>, ssClosed |-> FALSE]

NewStop == [pc |-> "idle", quiet |-> "na"]

\* the context of a session: derived from the caller's context (151)
CtxDone(c) == sess[c].ctxDone \/ ctxDone

\* handler.Cmd builds the command with exec.CommandContext(ctx, ...):
\* the child is killed once the session context is done
CmdNoContext(c) == FALSE

CmdContextDone(c) == CtxDone(c)

ChildGone(c) == sess[c].child \in {"exited0", "exitedErr", "killed"}

\* the sink channel handed to BeginSampling has one slot per device
ChanCap == Cardinality(cfg.callers)

\* parseErrors after one line (uint8 counter, 242 and 253); the mutant
\* never resets it
ParseErrorsNoReset(pe, kind) ==
  IF kind = "bad" THEN (pe + 1) % 256 ELSE pe

ParseErrorsAfter(pe, kind) ==
  IF kind = "bad" THEN (pe + 1) % 256
  ELSE IF kind = "good" THEN 0
  ELSE pe

\* no goroutine has panicked and main has not returned
Alive == panicked = "none" /\ orch.rpc # "exited"

\* ---- BeginSampling (144-210) ----
\* 145-147: the flag is read
B_Load(c) ==
  /\ sess[c].bpc = "idle"
  /\ sess' = [sess EXCEPT ![c].bpc =
                IF dev[DevOf(c)].isSampling THEN "rejected" ELSE "store"]
  /\ Alive
  /\ UNCHANGED <<cfg, dev, stop, nstops, ctxDone, samplesCh, samplesClosed, panicked,
                 storeVars, bufVars, orch>>

\* 149: the flag is set
B_Store(c) ==
  /\ sess[c].bpc = "store"
  /\ dev' = [dev EXCEPT ![DevOf(c)].isSampling = TRUE]
  /\ sess' = [sess EXCEPT ![c].bpc = "ctx"]
  /\ Alive
  /\ UNCHANGED <<cfg, stop, nstops, ctxDone, samplesCh, samplesClosed, panicked,
                 storeVars, bufVars, orch>>

\* 151-152: the device keeps the cancel function of the new context
B_Ctx(c) ==
  /\ sess[c].bpc = "ctx"
  /\ dev' = [dev EXCEPT ![DevOf(c)].cancel = c]
  /\ sess' = [sess EXCEPT ![c].bpc = "start"]
  /\ Alive
  /\ UNCHANGED <<cfg, stop, nstops, ctxDone, samplesCh, samplesClosed, panicked,
                 storeVars, bufVars, orch>>

\* 154-169: pipes and cmd.Start; a failure clears the flag and returns
B_Start(c) ==
  /\ sess[c].bpc = "start"
  /\ \E r \in {"ok", "stdout pipe", "stderr pipe", "start"} :
       IF r = "ok" /\ ~CtxDone(c)
         THEN /\ sess' = [sess EXCEPT ![c].bpc = "spawn", ![c].child = "running"]
              /\ UNCHANGED dev
         ELSE /\ sess' = [sess EXCEPT ![c].bpc = "failed"]
              /\ dev' = [dev EXCEPT ![DevOf(c)].isSampling = FALSE]
  /\ Alive
  /\ UNCHANGED <<cfg, stop, nstops, ctxDone, samplesCh, samplesClosed, panicked,
                 storeVars, bufVars, orch>>

\* 175-183, 209: wg.Add(1), the coordinator and its three tasks start, the
\* caller gets the sampling-stopped channel and receives from it
B_Spawn(c) ==
  /\ sess[c].bpc = "spawn"
  /\ dev' = [dev EXCEPT ![DevOf(c)].wg = @ + 1]
  /\ sess' = [sess EXCEPT ![c].bpc = "waiting", ![c].co = "collect",
                          ![c].tso = "scan", ![c].tse = "run", ![c].tw = "run"]
  /\ Alive
  /\ UNCHANGED <<cfg, stop, nstops, ctxDone, samplesCh, samplesClosed, panicked,
                 storeVars, bufVars, orch>>

\* the caller finds the sampling-stopped channel closed
B_RecvClosed(c) ==
  /\ sess[c].bpc = "waiting"
  /\ sess[c].ssClosed
  /\ sess' = [sess EXCEPT ![c].bpc = "gotclosed"]
  /\ Alive
  /\ UNCHANGED <<cfg, dev, stop, nstops, ctxDone, samplesCh, samplesClosed, panicked,
                 storeVars, bufVars, orch>>

\* ---- the child process ----
ChildExit(c) ==
  /\ sess[c].child = "running"
  /\ \E st \in {"exited0", "exitedErr"} : sess' = [sess EXCEPT ![c].child = st]
  /\ Alive
  /\ UNCHANGED <<cfg, dev, stop, nstops, ctxDone, samplesCh, samplesClosed, panicked,
                 storeVars, bufVars, orch>>

ChildKill(c) ==
  /\ sess[c].child = "running"
  /\ CmdContextDone(c)
  /\ sess' = [sess EXCEPT ![c].child = "killed"]
  /\ Alive
  /\ UNCHANGED <<cfg, dev, stop, nstops, ctxDone, samplesCh, samplesClosed, panicked,
                 storeVars, bufVars, orch>>

\* ---- handleStdout (228-280) ----
\* a reader that sends every sweep twice
EmitTwice(sweep) == <<sweep, sweep>>

\* 255-258: without a buffer the sweep is sent as it is, once
Emit(sweep) == <<sweep>>

\* 232-267: one line the child wrote is scanned and handled
T_ScanLine(c) ==
  /\ sess[c].tso = "scan"
  /\ Len(sess[c].consumed) < cfg.maxLines
  /\ \E line \in cfg.lines :
       LET d    == DevOf(c)
           pe   == ParseErrorsAfter(sess[c].parseErrors, line.kind)
           read == [sess EXCEPT ![c].consumed = Append(@, line.kind),
                                ![c].parseErrors = pe]
           sweep == [line.sweep EXCEPT !.deviceID = d]
           ins  == Insert(dev[d].buffer, sweep)
       IN
       IF line.kind = "blank"
         THEN sess' = read /\ UNCHANGED dev
       ELSE IF line.kind = "bad"
         THEN /\ sess' = IF pe >= dev[d].parseErrorsThreshold
                           THEN [read EXCEPT ![c].tso = "done",
                                   ![c].done = Append(@, ErrTooManyParseErrors),
                                   ![c].reported = @ \cup {ErrTooManyParseErrors}]
                           ELSE read
              /\ UNCHANGED dev
       ELSE IF ~dev[d].hasBuffer
         THEN /\ sess' = [read EXCEPT ![c].parsed = Append(@, sweep),
                                      ![c].outq = Emit(sweep),
                                      ![c].tso = "send", ![c].tnext = "scan"]
              /\ UNCHANGED dev
       ELSE IF IsFull(ins)
         THEN /\ sess' = [read EXCEPT ![c].parsed = Append(@, sweep),
                                      ![c].outq = FlushBlock(ins),
                                      ![c].tso = "send", ![c].tnext = "scan"]
              /\ dev' = [dev EXCEPT ![d].buffer = FlushRest(ins)]
       ELSE /\ sess' = [read EXCEPT ![c].parsed = Append(@, sweep)]
            /\ dev' = [dev EXCEPT ![d].buffer = ins]
  /\ Alive
  /\ UNCHANGED <<cfg, stop, nstops, ctxDone, samplesCh, samplesClosed, panicked,
                 storeVars, bufVars, orch>>

\* 232, 269-273: Scan returns false, at end of file once the child is gone
\* or on a read error; what is left in the buffer is drained
T_ScanEnd(c) ==
  LET d == DevOf(c) IN
  /\ sess[c].tso = "scan"
  /\ \E ioerr \in {FALSE, cfg.pipeErrors} :
       /\ (ioerr \/ ChildGone(c))
       /\ IF dev[d].hasBuffer /\ Size(dev[d].buffer) > 0
            THEN /\ sess' = [sess EXCEPT ![c].scanErr = ioerr,
                                         ![c].outq = DrainBlock(dev[d].buffer),
                                         ![c].tso = "send", ![c].tnext = "final"]
                 /\ dev' = [dev EXCEPT ![d].buffer = DrainRest(@)]
            ELSE /\ sess' = [sess EXCEPT ![c].scanErr = ioerr, ![c].tso = "final"]
                 /\ UNCHANGED dev
  /\ Alive
  /\ UNCHANGED <<cfg, stop, nstops, ctxDone, samplesCh, samplesClosed, panicked,
                 storeVars, bufVars, orch>>

\* 256, 265, 271: one sweep is sent to the sink; sending on a closed
\* channel panics
T_Send(c) ==
  /\ sess[c].tso = "send"
  /\ IF samplesClosed
       THEN /\ panicked' = "send on closed channel"
            /\ UNCHANGED <<sess, samplesCh>>
       ELSE /\ Len(samplesCh) < ChanCap
            /\ samplesCh' = Append(samplesCh, Head(sess[c].outq))
            /\ sess' = [sess EXCEPT ![c].outq = Tail(@),
                          ![c].sent = Append(@, Head(sess[c].outq)),
                          ![c].tso = IF Len(sess[c].outq) = 1
                                       THEN sess[c].tnext ELSE "send"]
            /\ UNCHANGED panicked
  /\ Alive
  /\ UNCHANGED <<cfg, dev, stop, nstops, ctxDone, samplesClosed,
                 storeVars, bufVars, orch>>

\* 274-279: the reader reports its result
T_Final(c) ==
  LET v == IF sess[c].scanErr THEN ErrBrokenPipeStdout ELSE NilErr IN
  /\ sess[c].tso = "final"
  /\ sess' = [sess EXCEPT ![c].tso = "done",
                ![c].done = Append(@, v),
                ![c].reported = IF v = NilErr THEN @ ELSE @ \cup {v}]
  /\ Alive
  /\ UNCHANGED <<cfg, dev, stop, nstops, ctxDone, samplesCh, samplesClosed, panicked,
                 storeVars, bufVars, orch>>

\* ---- handleStderr (283-301) ----
T_Stderr(c) ==
  /\ sess[c].tse = "run"
  /\ \E ioerr \in {FALSE, cfg.pipeErrors} :
       /\ (ioerr \/ ChildGone(c))
       /\ LET v == IF ioerr THEN ErrBrokenPipeStderr ELSE NilErr IN
          sess' = [sess EXCEPT ![c].tse = "done",
                     ![c].done = Append(@, v),
                     ![c].reported = IF v = NilErr THEN @ ELSE @ \cup {v}]
  /\ Alive
  /\ UNCHANGED <<cfg, dev, stop, nstops, ctxDone, samplesCh, samplesClosed, panicked,
                 storeVars, bufVars, orch>>

\* ---- handleCmdWait (304-311) ----
\* cmd.Wait returns an ExitError for a child that was killed or exited
\* with a non-zero status
T_Wait(c) ==
  LET v == IF sess[c].child = "exited0" THEN NilErr ELSE ErrCmdExit IN
  /\ sess[c].tw = "run"
  /\ ChildGone(c)
  /\ sess' = [sess EXCEPT ![c].tw = "done",
                ![c].done = Append(@, v),
                ![c].reported = IF v = NilErr THEN @ ELSE @ \cup {v}]
  /\ Alive
  /\ UNCHANGED <<cfg, dev, stop, nstops, ctxDone, samplesCh, samplesClosed, panicked,
                 storeVars, bufVars, orch>>

\* ---- the coordinator goroutine (178-207) ----
\* 186-193: one result is taken from done; an error cancels through d.cancel
C_Recv(c) ==
  LET v == Head(sess[c].done)
      target == dev[DevOf(c)].cancel
      s1 == IF v = NilErr THEN sess ELSE [sess EXCEPT ![target].ctxDone = TRUE]
  IN
  /\ sess[c].co = "collect"
  /\ sess[c].done # <<>>
  /\ sess' = [s1 EXCEPT ![c].done = Tail(@),
                ![c].errs = IF v = NilErr THEN @ ELSE Append(@, v),
                ![c].cnt = @ + 1,
                ![c].co = IF sess[c].cnt + 1 = DoneCap THEN "finish" ELSE "collect"]
  /\ Alive
  /\ UNCHANGED <<cfg, dev, stop, nstops, ctxDone, samplesCh, samplesClosed, panicked,
                 storeVars, bufVars, orch>>

\* 195-200: close(done), the flag is cleared, wg.Done()
C_Finish(c) ==
  /\ sess[c].co = "finish"
  /\ dev' = [dev EXCEPT ![DevOf(c)].isSampling = FALSE, ![DevOf(c)].wg = @ - 1]
  /\ sess' = [sess EXCEPT ![c].co = IF sess[c].errs # <<>> THEN "send" ELSE "close"]
  /\ Alive
  /\ UNCHANGED <<cfg, stop, nstops, ctxDone, samplesCh, samplesClosed, panicked,
                 storeVars, bufVars, orch>>

\* 202-204: errors.Join(errs...) is handed to the receiver of the
\* unbuffered sampling-stopped channel
C_Send(c) ==
  /\ sess[c].co = "send"
  /\ sess[c].bpc = "waiting"
  /\ sess' = [sess EXCEPT ![c].ssVal = Append(@, sess[c].errs),
                          ![c].bpc = "got", ![c].co = "close"]
  /\ Alive
  /\ UNCHANGED <<cfg, dev, stop, nstops, ctxDone, samplesCh, samplesClosed, panicked,
                 storeVars, bufVars, orch>>

\* 206: close(samplingStopped)
C_Close(c) ==
  /\ sess[c].co = "close"
  /\ sess' = [sess EXCEPT ![c].ssClosed = TRUE, ![c].co = "end"]
  /\ Alive
  /\ UNCHANGED <<cfg, dev, stop, nstops, ctxDone, samplesCh, samplesClosed, panicked,
                 storeVars, bufVars, orch>>

\* ---- Stop (212-220) ----
\* no child of the device is alive and no task is running or about to start
DeviceQuiet(d) ==
  \A c \in cfg.callers :
    DevOf(c) = d =>
      /\ sess[c].bpc # "spawn"
      /\ sess[c].child # "running"
      /\ sess[c].tso \in {"none", "done"}
      /\ sess[c].tse \in {"none", "done"}
      /\ sess[c].tw \in {"none", "done"}

\* 213-215: the flag is read
S_Load(t) ==
  /\ stop[t].pc \in {"idle", "ret"}
  /\ nstops < MaxStops
  /\ nstops' = nstops + 1
  /\ stop' = [stop EXCEPT ![t] =
                IF dev[1].isSampling THEN [pc |-> "cancel", quiet |-> "na"]
                                     ELSE [pc |-> "ret", quiet |-> "na"]]
  /\ Alive
  /\ UNCHANGED <<cfg, dev, sess, ctxDone, samplesCh, samplesClosed, panicked,
                 storeVars, bufVars, orch>>

\* 217: d.cancel(); calling a nil function value panics
S_Cancel(t) ==
  /\ stop[t].pc = "cancel"
  /\ IF dev[1].cancel = 0
       THEN /\ panicked' = "Stop: nil cancel function"
            /\ stop' = [stop EXCEPT ![t].pc = "panic"]
            /\ UNCHANGED sess
       ELSE /\ sess' = [sess EXCEPT ![dev[1].cancel].ctxDone = TRUE]
            /\ stop' = [stop EXCEPT ![t].pc = "wait"]
            /\ UNCHANGED panicked
  /\ Alive
  /\ UNCHANGED <<cfg, dev, nstops, ctxDone, samplesCh, samplesClosed,
                 storeVars, bufVars, orch>>

\* 218: d.wg.Wait()
S_Wait(t) ==
  /\ stop[t].pc = "wait"
  /\ dev[1].wg = 0
  /\ stop' = [stop EXCEPT ![t].pc = "store"]
  /\ Alive
  /\ UNCHANGED <<cfg, dev, sess, nstops, ctxDone, samplesCh, samplesClosed, panicked,
                 storeVars, bufVars, orch>>

\* 219: the flag is cleared and Stop returns
S_Store(t) ==
  /\ stop[t].pc = "store"
  /\ dev' = [dev EXCEPT ![1].isSampling = FALSE]
  /\ stop' = [stop EXCEPT ![t] =
                [pc |-> "ret", quiet |-> IF DeviceQuiet(1) THEN "yes" ELSE "no"]]
  /\ Alive
  /\ UNCHANGED <<cfg, sess, nstops, ctxDone, samplesCh, samplesClosed, panicked,
                 storeVars, bufVars, orch>>

\* ---- the environment of a device driven directly ----
\* the caller's context is cancelled
ExternalCancel ==
  /\ ~ctxDone
  /\ ctxDone' = TRUE
  /\ Alive
  /\ UNCHANGED <<cfg, dev, sess, stop, nstops, samplesCh, samplesClosed, panicked,
                 storeVars, bufVars, orch>>

\* the client takes one sweep from the sink channel
SinkRecv ==
  /\ samplesCh # <<>>
  /\ samplesCh' = Tail(samplesCh)
  /\ Alive
  /\ UNCHANGED <<cfg, dev, sess, stop, nstops, ctxDone, samplesClosed, panicked,
                 storeVars, bufVars, orch>>

\* ---------------------------------------------------------------------
\* StoreSweepResult, step by step (store.go 357-401)
\* ---------------------------------------------------------------------
\* store.go 358-365: empty sweep is a no-op; getWriteDB opens once and caches
SSR_GetDB ==
  /\ wpc = "call"
  /\ IF Len(wreq.result.readings) = 0
       THEN /\ wpc' = "ret"
            /\ UNCHANGED <<writeDB, werr, wfail>>
       ELSE \/ /\ writeDB = "unopened"
               /\ \E ok \in BOOLEAN :
                    /\ writeDB' = IF ok THEN "open" ELSE "error"
                    /\ wpc' = IF ok THEN "begin" ELSE "ret"
                    /\ werr' = IF ok THEN werr ELSE "getting write connection"
                    /\ wfail' = IF ok THEN wfail ELSE "getdb"
            \/ /\ writeDB = "open"
               /\ wpc' = "begin"
               /\ UNCHANGED <<writeDB, werr, wfail>>
            \/ /\ writeDB = "error"
               /\ wpc' = "ret"
               /\ werr' = "getting write connection"
               /\ wfail' = "getdb"
               /\ UNCHANGED writeDB
  /\ UNCHANGED <<dbSamples, txRows, txState, wreq, wi, wctxDone, handed, ncalls, reader, tel, parser, cs, conf>>

\* store.go 367-371: BeginTx(ctx); the rollback is deferred only on success
SSR_BeginTx ==
  /\ wpc = "begin"
  /\ \E ok \in BOOLEAN :
       IF ok /\ ~wctxDone
         THEN /\ txState' = "open"
              /\ txRows' = <<>>
              /\ wpc' = "prepare"
              /\ UNCHANGED <<werr, wfail>>
         ELSE /\ werr' = "beginning transaction"
              /\ wfail' = "begin"
              /\ wpc' = "ret"
              /\ UNCHANGED <<txState, txRows>>
  /\ UNCHANGED <<writeDB, dbSamples, wreq, wi, wctxDone, handed, ncalls, reader, tel, parser, cs, conf>>

\* store.go 373-377: PrepareContext; the close is deferred only on success
SSR_Prepare ==
  /\ wpc = "prepare"
  /\ \E ok \in BOOLEAN :
       IF ok /\ ~wctxDone
         THEN /\ wpc' = "insert"
              /\ wi' = 1
              /\ UNCHANGED <<werr, wfail>>
         ELSE /\ werr' = "preparing statement"
              /\ wfail' = "prepare"
              /\ wpc' = "deferRollback"
              /\ UNCHANGED wi
  /\ UNCHANGED <<writeDB, dbSamples, txRows, txState, wreq, wctxDone, handed, ncalls, reader, tel, parser, cs, conf>>

\* store.go 379-395: one iteration of the insert loop
SSR_Exec ==
  /\ wpc = "insert"
  /\ wi <= Len(wreq.result.readings)
  /\ \E ok \in BOOLEAN :
       IF ok /\ ~wctxDone
         THEN LET data == toSampleData(wreq.sessionID, wreq.telemetryID,
                                       wreq.result.readings[wi], wreq.result)
                  res  == ExecInTx(dbSamples, txRows, data)
              IN  /\ dbSamples' = res.table
                  /\ txRows' = res.tx
                  /\ wi' = wi + 1
                  /\ UNCHANGED <<wpc, werr, wfail>>
         ELSE /\ werr' = "inserting sample"
              /\ wfail' = IF wctxDone THEN "ctx" ELSE "insert"
              /\ wpc' = "deferClose"
              /\ UNCHANGED <<dbSamples, txRows, wi>>
  /\ UNCHANGED <<writeDB, txState, wreq, wctxDone, handed, ncalls, reader, tel, parser, cs, conf>>

\* store.go 396-400: Commit ends the transaction whether or not it succeeds
SSR_Commit ==
  /\ wpc = "insert"
  /\ wi > Len(wreq.result.readings)
  /\ \E ok \in BOOLEAN :
       IF ok /\ ~wctxDone
         THEN /\ dbSamples' = dbSamples \o txRows
              /\ txState' = "committed"
              /\ werr' = NilErr
              /\ UNCHANGED wfail
         ELSE /\ txState' = "rolledback"
              /\ werr' = "committing transaction"
              /\ wfail' = IF wctxDone THEN "ctx" ELSE "commit"
              /\ UNCHANGED dbSamples
  /\ txRows' = <<>>
  /\ wpc' = "deferClose"
  /\ UNCHANGED <<writeDB, wreq, wi, wctxDone, handed, ncalls, reader, tel, parser, cs, conf>>

\* store.go 377: deferred closeWithError(stmt, &err); a statement of a
\* finished transaction is already closed and Close returns nil
SSR_DeferClose ==
  /\ wpc = "deferClose"
  /\ \E cErr \in {NilErr, "closing statement"} :
       /\ (txState # "open" => cErr = NilErr)
       /\ werr' = closeWithError(cErr, werr)
  /\ wpc' = "deferRollback"
  /\ UNCHANGED <<writeDB, dbSamples, txRows, txState, wreq, wi, wctxDone,
                 wfail, handed, ncalls, reader, tel, parser, cs, conf>>

\* store.go 371: deferred rollbackWithError(tx, &err)
SSR_DeferRollback ==
  /\ wpc = "deferRollback"
  /\ werr' = rollbackWithError(TxRollbackResult(txState), werr)
  /\ txState' = IF txState = "open" THEN "rolledback" ELSE txState
  /\ txRows' = <<>>
  /\ wpc' = "ret"
  /\ UNCHANGED <<writeDB, dbSamples, wreq, wi, wctxDone, wfail, handed, ncalls, reader, tel, parser, cs, conf>>

\* the caller's context is cancelled while the call is in progress
SSR_CtxCancel ==
  /\ wpc \in {"begin", "prepare", "insert"}
  /\ ~wctxDone
  /\ wctxDone' = TRUE
  /\ UNCHANGED <<writeDB, dbSamples, txRows, txState, wpc, werr, wreq, wi,
                 wfail, handed, ncalls, reader, tel, parser, cs, conf>>

\* entry of StoreSweepResult with its arguments
SSR_Enter(sessionID, telemetryID, result) ==
  /\ wreq' = [sessionID |-> sessionID, telemetryID |-> telemetryID,
              result |-> result]
  /\ wpc' = "call"
  /\ werr' = NilErr
  /\ wi' = 0
  /\ wctxDone' = FALSE
  /\ wfail' = "none"
  /\ txState' = "none"
  /\ txRows' = <<>>
  /\ handed' = handed \cup {result}

SSR_Steps ==
  \/ SSR_GetDB
  \/ SSR_BeginTx
  \/ SSR_Prepare
  \/ SSR_Exec
  \/ SSR_Commit
  \/ SSR_DeferClose
  \/ SSR_DeferRollback

\* ---------------------------------------------------------------------
\* Store client: a caller that stores sweeps one after another
\* ---------------------------------------------------------------------
ReadingSeqs ==
  UNION {[1..k -> {PowerReading(f, 1, v) : f \in {7}, v \in BOOLEAN}]
           : k \in 0..MaxReadings}

ClientStore ==
  /\ wpc \in {"idle", "ret"}
  /\ ncalls < MaxStoreCalls
  /\ ncalls' = ncalls + 1
  /\ \E rd \in ReadingSeqs, tid \in {NoTelemetry, 1} :
       SSR_Enter(1, tid, SweepResult(ncalls + 1, 7, 8, 1, 1, rd, "rtl-sdr", 1))
  /\ UNCHANGED <<writeDB, dbSamples, reader, tel, parser, cs, conf>>

\* no reader has been opened on the store
NoReader == [pc |-> "none"]

\* part_023 16-21, 152-168: the orchestrator's provider (installed or
\* not), table telemetry, and the sweep storeSweepResult is working on;
\* taken and outcome are history
NewTelemetry(provider) ==
  [provider |-> provider, table |-> <<>>, cur |-> NoSweep, sessionID |-> 0,
   taken |-> 0, outcome |-> "none"]

\* no telemetry provider is installed and table telemetry is empty
TelIdle == NewTelemetry(FALSE)

WriterIdle ==
  /\ writeDB = "unopened"
  /\ dbSamples = <<>>
  /\ txRows = <<>>
  /\ txState = "none"
  /\ wpc = "idle"
  /\ werr = NilErr
  /\ wreq = NoRequest
  /\ wi = 0
  /\ wctxDone = FALSE
  /\ wfail = "none"
  /\ handed = {}
  /\ ncalls = 0

\* no line is being parsed
NoParser == [pc |-> "none"]

\* no configuration is being turned into arguments
NoConf == [pc |-> "none"]

\* ---------------------------------------------------------------------
\* CreateSession (store.go 185-234) and table sessions (schema.sql 2-9)
\* ---------------------------------------------------------------------
SessionClients == {1, 2}

DeviceTypes == {"rtl-sdr", "hackrf"}

DeviceIDs == {"dev-a", "dev-b"}

\* config as the caller hands it over: nil or a value that serialises
ConfigValues == {"nil", "cfg"}

ErrGetWriteDB == "getting write connection"

ErrPrepare == "preparing statement"

ErrNotNull == "inserting session: NOT NULL constraint failed"

ErrUnique == "inserting session: UNIQUE constraint failed"

NoCall == [pc |-> "idle", deviceType |-> "", deviceID |-> "", config |-> "nil",
           sessionID |-> 0, err |-> NilErr]

\* 186-207: configData is NULL exactly for a nil config
ConfigData(config) == IF config = "nil" THEN SqlNull ELSE SqlVal(config)

\* a table sessions declared without the UNIQUE clause
UniqueViolationNone(rows, deviceID, startTime) == FALSE

\* schema.sql 8: UNIQUE(device_id, start_time)
UniqueViolation(rows, deviceID, startTime) ==
  \E i \in 1..Len(rows) :
    rows[i].device_id = deviceID /\ rows[i].start_time = startTime

\* schema.sql 2-9 and insertSessionSQL (part_018 83-90): the insert of
\* one row at database time now; NOT NULL is checked before UNIQUE, the
\* key of the new row is the next rowid
InsertSession(rows, now, deviceType, deviceID, configData) ==
  IF ~configData.valid
    THEN [rows |-> rows, id |-> 0, err |-> ErrNotNull]
  ELSE IF UniqueViolation(rows, deviceID, now)
    THEN [rows |-> rows, id |-> 0, err |-> ErrUnique]
  ELSE [rows |-> Append(rows, [id |-> Len(rows) + 1, start_time |-> now,
                               device_type |-> deviceType,
                               device_id |-> deviceID,
                               config |-> configData]),
        id |-> Len(rows) + 1, err |-> NilErr]

NoSessions ==
  [rows |-> <<>>, now |-> 0, ncalls |-> 0,
   call |-> [c \in SessionClients |-> NoCall]]

SessionFrame ==
  UNCHANGED <<dbSamples, txRows, txState, wpc, werr, wreq, wi, wctxDone,
              wfail, handed, ncalls, reader, tel, parser, conf, bufVars, devVars, orch>>

\* a client calls CreateSession(ctx, deviceType, deviceID, config)
CS_Call(c) ==
  /\ cs.call[c].pc \in {"idle", "ret"}
  /\ cs.ncalls < MaxSessionCalls
  /\ \E t \in DeviceTypes, d \in DeviceIDs, cf \in ConfigValues :
       cs' = [cs EXCEPT !.ncalls = @ + 1,
                        !.call[c] = [NoCall EXCEPT !.pc = "getdb",
                                                   !.deviceType = t,
                                                   !.deviceID = d,
                                                   !.config = cf]]
  /\ UNCHANGED writeDB
  /\ SessionFrame

\* 209-213: getWriteDB, opened once for all callers
CS_GetDB(c) ==
  /\ cs.call[c].pc = "getdb"
  /\ \E r \in {"ok", "getdb"} :
       /\ (r = "getdb") => (writeDB # "open")
       /\ (r # "getdb") => (writeDB # "error")
       /\ writeDB' = IF r = "getdb" THEN "error" ELSE "open"
       /\ cs' = IF r = "ok"
                  THEN [cs EXCEPT !.call[c].pc = "prepare"]
                  ELSE [cs EXCEPT !.call[c].pc = "ret",
                                  !.call[c].err = ErrGetWriteDB]
  /\ SessionFrame

\* 215-220: PrepareContext
CS_Prepare(c) ==
  /\ cs.call[c].pc = "prepare"
  /\ \E r \in {"ok", "prepare"} :
       cs' = IF r = "ok"
               THEN [cs EXCEPT !.call[c].pc = "exec"]
               ELSE [cs EXCEPT !.call[c].pc = "ret", !.call[c].err = ErrPrepare]
  /\ UNCHANGED writeDB
  /\ SessionFrame

\* 222-233: ExecContext, LastInsertId and the deferred Close of the
\* statement; CURRENT_TIMESTAMP is the clock of the database at the insert
CS_Exec(c) ==
  /\ cs.call[c].pc = "exec"
  /\ LET a == cs.call[c]
         res == InsertSession(cs.rows, cs.now, a.deviceType, a.deviceID,
                              ConfigData(a.config))
     IN  \E cErr \in {NilErr, "closing statement"} :
           cs' = [cs EXCEPT !.rows = res.rows,
                            !.call[c].pc = "ret",
                            !.call[c].sessionID = res.id,
                            !.call[c].err = closeWithError(cErr, res.err)]
  /\ UNCHANGED writeDB
  /\ SessionFrame

\* a second passes on the clock of the database
CS_Tick ==
  /\ cs.now < MaxClock
  /\ cs' = [cs EXCEPT !.now = @ + 1]
  /\ UNCHANGED writeDB
  /\ SessionFrame

StoreInit ==
  /\ WriterIdle /\ reader = NoReader /\ tel = TelIdle /\ parser = NoParser
  /\ cs = NoSessions /\ conf = NoConf

\* NewFrequencyBuffer returned the buffer sb and no error
Constructed ==
  /\ newArgs = [capacity |-> sb.capacity, flushCount |-> sb.flushCount]
  /\ bufErr = NilErr

BufIdle ==
  /\ sb = NewBuffer(1, 1)
  /\ pool = {}
  /\ oneShot = FALSE
  /\ out = <<>>
  /\ lastOp = "new"
  /\ nblocks = 0
  /\ nins = 0
  /\ Constructed

\* no device, no caller
DevIdle ==
  /\ cfg = [callers |-> {}, stoppers |-> {}, orch |-> FALSE,
            lines |-> {}, maxLines |-> 0, pipeErrors |-> FALSE]
  /\ dev = <<>>
  /\ sess = <<>>
  /\ stop = <<>>
  /\ nstops = 0
  /\ ctxDone = FALSE
  /\ samplesCh = <<>>
  /\ samplesClosed = FALSE
  /\ panicked = "none"

NoOrch == [rpc |-> "none"]

OrchIdle == orch = NoOrch

SpecStoreInit == StoreInit /\ BufIdle /\ DevIdle /\ OrchIdle

SpecStoreNext ==
  \/ ClientStore /\ UNCHANGED <<bufVars, devVars, orch>>
  \/ SSR_GetDB /\ UNCHANGED <<bufVars, devVars, orch>>
  \/ SSR_BeginTx /\ UNCHANGED <<bufVars, devVars, orch>>
  \/ SSR_Prepare /\ UNCHANGED <<bufVars, devVars, orch>>
  \/ SSR_Exec /\ UNCHANGED <<bufVars, devVars, orch>>
  \/ SSR_Commit /\ UNCHANGED <<bufVars, devVars, orch>>
  \/ SSR_DeferClose /\ UNCHANGED <<bufVars, devVars, orch>>
  \/ SSR_DeferRollback /\ UNCHANGED <<bufVars, devVars, orch>>
  \/ SSR_CtxCancel /\ UNCHANGED <<bufVars, devVars, orch>>

SpecStore == SpecStoreInit /\ [][SpecStoreNext]_vars

\* ---------------------------------------------------------------------
\* Device configurations: Validate and Args (part_000 rtl, hackrf/config.go)
\* ---------------------------------------------------------------------
\* a *int field: NilInt is the nil pointer
NilInt == [valid |-> FALSE, v |-> 0]

IntPtr(n) == [valid |-> TRUE, v |-> n]

Opt(cond, tokens) == IF cond THEN tokens ELSE <<>>

\* part_000 13-14
BinWidthMin == 1

BinWidthMax == 2800000

\* part_000 32-47
validWindowFunctions ==
  {"rectangle", "hamming", "blackman", "blackman-harris", "hann-poisson",
   "youssef", "kaiser", "bartlett"}

validSmoothingMethods == {"avg", "iir"}

\* TimeDuration.Validate (part_000 99-110), durations in milliseconds
TimeDurationValidate(d) ==
  IF d < 0 THEN "rtl.TimeDuration: must not be negative"
  ELSE IF d > 0 /\ d < 1000 THEN "rtl.TimeDuration: must be at least 1 second"
  ELSE NilErr

\* TimeDuration.String (part_000 112-121)
TimeDurationString(d) ==
  IF d % 3600000 = 0 THEN ToString(d \div 3600000) \o "h"
  ELSE IF d % 60000 = 0 THEN ToString(d \div 60000) \o "m"
  ELSE ToString(d \div 1000) \o "s"

\* strconv.FormatFloat(crop, 'f', 2, 32) of a crop given in hundredths
FormatCrop(c) ==
  ToString(c \div 100) \o "." \o ToString((c % 100) \div 10) \o ToString(c % 10)

\* rtl Config.Validate (part_000 201-255)
RtlValidate(c) ==
  IF c.FrequencyStart <= 0 THEN "rtl.Config: frequency start must be positive"
  ELSE IF c.FrequencyEnd <= 0 THEN "rtl.Config: frequency end must be positive"
  ELSE IF c.FrequencyEnd <= c.FrequencyStart
    THEN "rtl.Config: frequency end must be greater than start"
  ELSE IF c.BinWidth < BinWidthMin \/ c.BinWidth > BinWidthMax
    THEN "rtl.Config: invalid bin width"
  ELSE IF c.Interval > 0 /\ TimeDurationValidate(c.Interval) # NilErr
    THEN "rtl.Config: invalid interval"
  ELSE IF c.ExitTimer > 0 /\ TimeDurationValidate(c.ExitTimer) # NilErr
    THEN "rtl.Config: invalid exit timer"
  ELSE IF c.WindowFunction # "" /\ c.WindowFunction \notin validWindowFunctions
    THEN "rtl.Config: invalid window function"
  ELSE IF c.Smoothing # "" /\ c.Smoothing \notin validSmoothingMethods
    THEN "rtl.Config: invalid smoothing method"
  ELSE IF c.Crop < 0 \/ c.Crop > 100
    THEN "rtl.Config: crop percent must be between 0 and 1"
  ELSE IF c.FIRSize.valid /\ c.FIRSize.v # 0 /\ c.FIRSize.v # 9
    THEN "rtl.Config: FIR size must be 0 or 9"
  ELSE NilErr

\* an argument list that stops after the hardware options
RtlNoSentinel == <<>>

\* part_000 330: always dump to stdout
RtlStdoutSentinel == <<"-">>

\* rtl Config.Args (part_000 260-333)
RtlArgs(c) ==
  IF RtlValidate(c) # NilErr
    THEN [args |-> <<>>, err |-> RtlValidate(c)]
    ELSE [args |->
            <<"-f", ToString(c.FrequencyStart) \o ":" \o ToString(c.FrequencyEnd)
                      \o ":" \o ToString(c.BinWidth)>>
            \o Opt(c.Interval > 0, <<"-i", TimeDurationString(c.Interval)>>)
            \o <<"-d", ToString(c.DeviceIndex)>>
            \o Opt(c.Gain > 0, <<"-g", ToString(c.Gain)>>)
            \o Opt(c.PPMError # 0, <<"-p", ToString(c.PPMError)>>)
            \o Opt(c.ExitTimer > 0, <<"-e", TimeDurationString(c.ExitTimer)>>)
            \o Opt(c.Smoothing # "", <<"-s", c.Smoothing>>)
            \o Opt(c.FFTThreads > 0, <<"-t", ToString(c.FFTThreads)>>)
            \o Opt(c.WindowFunction # "", <<"-w", c.WindowFunction>>)
            \o Opt(c.Crop > 0, <<"-c", FormatCrop(c.Crop)>>)
            \o Opt(c.FIRSize.valid, <<"-F", ToString(c.FIRSize.v)>>)
            \o Opt(c.PeakHold, <<"-P">>)
            \o Opt(c.DirectSampling, <<"-D">>)
            \o Opt(c.OffsetTuning, <<"-O">>)
            \o Opt(c.BiasTee, <<"-T">>)
            \o RtlStdoutSentinel,
          err |-> NilErr]

\* hackrf/config.go 127-131
MinNumSamples == 8192

MaxLNAGain == 40

MaxVGAGain == 62

LNAGainStep == 8

VGAGainStep == 2

\* hackrf Config.Validate (hackrf/config.go 188-225)
HackRFValidate(c) ==
  IF c.FrequencyStart >= c.FrequencyEnd
    THEN "hackrf.Config: frequency end must be greater than frequency start"
  ELSE IF c.LNAGain.valid /\ (c.LNAGain.v < 0 \/ c.LNAGain.v > MaxLNAGain)
    THEN "hackrf.Config: LNA gain must be between 0 and 40 dB"
  ELSE IF c.LNAGain.valid /\ c.LNAGain.v % LNAGainStep # 0
    THEN "hackrf.Config: LNA gain must be a multiple of 8 dB"
  ELSE IF c.VGAGain.valid /\ (c.VGAGain.v < 0 \/ c.VGAGain.v > MaxVGAGain)
    THEN "hackrf.Config: VGA gain must be between 0 and 62 dB"
  ELSE IF c.VGAGain.valid /\ c.VGAGain.v % VGAGainStep # 0
    THEN "hackrf.Config: VGA gain must be a multiple of 2 dB"
  ELSE IF c.NumSamples > 0 /\ c.NumSamples < MinNumSamples
    THEN "hackrf.Config: number of samples must be at least 8192"
  ELSE IF c.NumSweeps < 0
    THEN "hackrf.Config: number of sweeps cannot be negative"
  ELSE NilErr

\* hackrf Config.Args (hackrf/config.go 230-293): nothing follows the
\* options, -r is never passed
HackRFArgs(c, serialNumber) ==
  IF HackRFValidate(c) # NilErr
    THEN [args |-> <<>>, err |-> HackRFValidate(c)]
    ELSE [args |->
            <<"-f", ToString(c.FrequencyStart \div 1000000) \o ":"
                      \o ToString(c.FrequencyEnd \div 1000000)>>
            \o Opt(serialNumber # "", <<"-d", serialNumber>>)
            \o Opt(c.BinWidth > 0, <<"-w", ToString(c.BinWidth)>>)
            \o Opt(c.LNAGain.valid, <<"-l", ToString(c.LNAGain.v)>>)
            \o Opt(c.VGAGain.valid, <<"-g", ToString(c.VGAGain.v)>>)
            \o Opt(c.NumSamples >= 8192, <<"-n", ToString(c.NumSamples)>>)
            \o Opt(c.EnableAmp, <<"-a", "1">>)
            \o Opt(c.AntennaPower, <<"-p", "1">>)
            \o Opt(c.NumSweeps > 0, <<"-N", ToString(c.NumSweeps)>>),
          err |-> NilErr]

\* the configurations handed to Args: inside and outside what Validate admits
RtlBase ==
  [FrequencyStart |-> 88000000, FrequencyEnd |-> 108000000, BinWidth |-> 125000,
   Interval |-> 0, DeviceIndex |-> 0, Gain |-> 0, PPMError |-> 0,
   ExitTimer |-> 0, Smoothing |-> "", FFTThreads |-> 0, WindowFunction |-> "",
   Crop |-> 0, FIRSize |-> NilInt, PeakHold |-> FALSE,
   DirectSampling |-> FALSE, OffsetTuning |-> FALSE, BiasTee |-> FALSE]

\* gain, ppm error, exit timer, smoothing and FFT threads, all unset or all set
RtlTunings ==
  {[Gain |-> 0, PPMError |-> 0, ExitTimer |-> 0, Smoothing |-> "", FFTThreads |-> 0],
   [Gain |-> 10, PPMError |-> 0 - 5, ExitTimer |-> 3600000, Smoothing |-> "iir",
    FFTThreads |-> 2]}

RtlConfigs ==
  {[RtlBase EXCEPT !.FrequencyStart = a, !.FrequencyEnd = b, !.BinWidth = w] :
     a \in {0, 88000000}, b \in {88000000, 108000000}, w \in {0, 125000}}
  \cup
  {[RtlBase EXCEPT !.Interval = i, !.Gain = t.Gain, !.PPMError = t.PPMError,
                   !.ExitTimer = t.ExitTimer, !.Smoothing = t.Smoothing,
                   !.FFTThreads = t.FFTThreads, !.WindowFunction = wf,
                   !.Crop = cr, !.FIRSize = fir, !.PeakHold = hw[1],
                   !.DirectSampling = hw[2], !.OffsetTuning = hw[3],
                   !.BiasTee = hw[4]] :
     i \in {0, 500, 300000}, t \in RtlTunings,
     wf \in {"", "hamming", "gauss"}, cr \in {0, 20},
     fir \in {NilInt, IntPtr(9)}, hw \in [1..4 -> BOOLEAN]}

HackRFConfigs ==
  [FrequencyStart : {824000000, 849000000}, FrequencyEnd : {824000000, 849000000},
   LNAGain : {NilInt, IntPtr(16), IntPtr(12)},
   VGAGain : {NilInt, IntPtr(21)},
   BinWidth : {0, 100000}, NumSamples : {0, 100, 8192},
   EnableAmp : BOOLEAN, AntennaPower : BOOLEAN, NumSweeps : {0 - 1, 0, 3}]

NewConf(family, c, serialNumber) ==
  [pc |-> "config", family |-> family, config |-> c,
   serialNumber |-> serialNumber, args |-> <<>>, err |-> NilErr]

\* the device is given its command line: Args of the family's Config
A_Args ==
  /\ conf.pc = "config"
  /\ LET res == IF conf.family = "rtl-sdr"
                  THEN RtlArgs(conf.config)
                  ELSE HackRFArgs(conf.config, conf.serialNumber)
     IN  conf' = [conf EXCEPT !.pc = "args", !.args = res.args, !.err = res.err]
  /\ UNCHANGED <<writeDB, dbSamples, txRows, txState, wpc, werr, wreq, wi,
                 wctxDone, wfail, handed, ncalls, reader, tel, parser, cs,
                 bufVars, devVars, orch>>

SpecArgsInit ==
  /\ WriterIdle /\ reader = NoReader /\ tel = TelIdle /\ parser = NoParser
  /\ cs = NoSessions
  /\ conf \in {NewConf("rtl-sdr", c, "") : c \in RtlConfigs}
               \cup {NewConf("hackrf", c, sn) : c \in HackRFConfigs,
                                                sn \in {"", "0000000000000000a06063c8234e925f"}}
  /\ BufIdle /\ DevIdle /\ OrchIdle

SpecArgsNext == A_Args

SpecArgs == SpecArgsInit /\ [][SpecArgsNext]_vars

\* the store's clients creating sessions, the clock of the database running
SpecSessionInit == StoreInit /\ BufIdle /\ DevIdle /\ OrchIdle

SpecSessionNext ==
  \/ \E c \in SessionClients : CS_Call(c)
  \/ \E c \in SessionClients : CS_GetDB(c)
  \/ \E c \in SessionClients : CS_Prepare(c)
  \/ \E c \in SessionClients : CS_Exec(c)
  \/ CS_Tick

SpecSession == SpecSessionInit /\ [][SpecSessionNext]_vars

\* ---------------------------------------------------------------------
\* The span reader (part_016: SqliteSpectrumReader)
\* Frequencies are integers in units of one bin width of the literal
\* scenarios (1 MHz); timestamps are integers.
\* ---------------------------------------------------------------------
ErrNoData == "no data available"

ErrCtxCanceled == "context canceled"

ErrScan == "scanning sample"

ErrRows == "rows error"

ErrFill == "invalid bin width"

\* helpers.go 116-128: equal when the difference is within 1% of the bin
\* width, otherwise -1 or 1
freqCompare(a, b, binWidth) ==
  LET diff == a - b
      absd == IF diff < 0 THEN 0 - diff ELSE diff
  IN  IF 100 * absd <= binWidth THEN 0
      ELSE IF diff < 0 THEN 0 - 1 ELSE 1

freqLess(a, b, binWidth) == freqCompare(a, b, binWidth) < 0

freqGreater(a, b, binWidth) == freqCompare(a, b, binWidth) > 0

\* a persisted row of table samples as the query returns it; id is its
\* position in the result set (history, to tell the rows apart)
SampleRow(id, ts, f, power, bw) ==
  [id |-> id, timestamp |-> ts, frequency |-> f, power |-> power,
   binWidth |-> bw]

\* 269-294 scanSample: the point of a row; a NULL power is a nil pointer
ScanPoint(row) ==
  [frequency |-> row.frequency, power |-> row.power,
   binWidth |-> row.binWidth, row |-> row.id]

\* 387-411 createZeroPoint: power 0, bin width of the template; row 0
\* marks a point that is no persisted row
createZeroPoint(freq, template) ==
  [frequency |-> freq, power |-> SqlVal(0), binWidth |-> template.binWidth,
   row |-> 0]

\* 418-439 fillFrequencyRange: floor((end-start)/binWidth)+1 points from
\* start, each kept while it is <= end
fillFrequencyRange(start, end, template) ==
  LET binWidth == template.binWidth
      numPoints == ((end - start) \div binWidth) + 1
      kept == {i \in 0..(numPoints - 1) : start + i * binWidth <= end}
  IN  IF binWidth <= 0 THEN [points |-> <<>>, err |-> ErrFill]
      ELSE IF numPoints <= 0 THEN [points |-> <<>>, err |-> NilErr]
      ELSE [points |-> [i \in 1..Cardinality(kept) |->
                          createZeroPoint(start + (i - 1) * binWidth, template)],
            err |-> NilErr]

NoSpan == [isNil |-> TRUE]

NoSample == [frequency |-> 0, power |-> SqlNull, binWidth |-> 0, row |-> 0]

\* a new span that holds the gap fill only and leaves the sample out
StartSpanWithoutSeed(timestamp, sample, minFreq) ==
  LET gap == fillFrequencyRange(minFreq, sample.frequency, sample)
      fill == freqGreater(sample.frequency, minFreq, sample.binWidth)
  IN  [span |-> [isNil |-> FALSE, timestamp |-> timestamp,
                 frequencyStart |-> IF fill /\ gap.err = NilErr
                                    THEN minFreq ELSE sample.frequency,
                 frequencyEnd |-> 0,
                 samples |-> IF fill /\ gap.err = NilErr
                             THEN gap.points ELSE <<>>],
       err |-> IF fill THEN gap.err ELSE NilErr]

\* 450-473 and 517-538: a new span holding one sample, with the gap
\* between minFreq and the sample filled in front of it
StartSpan(timestamp, sample, minFreq) ==
  LET gap == fillFrequencyRange(minFreq, sample.frequency, sample)
      fill == freqGreater(sample.frequency, minFreq, sample.binWidth)
  IN  [span |-> [isNil |-> FALSE, timestamp |-> timestamp,
                 frequencyStart |-> IF fill /\ gap.err = NilErr
                                    THEN minFreq ELSE sample.frequency,
                 frequencyEnd |-> 0,
                 samples |-> IF fill /\ gap.err = NilErr
                             THEN gap.points \o <<sample>> ELSE <<sample>>],
       err |-> IF fill THEN gap.err ELSE NilErr]

\* 484-497 and 545-558: the span is complete; the gap between its last
\* sample and maxFreq is filled behind it
EndSpan(span, maxFreq) ==
  LET lastSample == span.samples[Len(span.samples)]
      fill == freqLess(lastSample.frequency, maxFreq, lastSample.binWidth)
      gap == fillFrequencyRange(lastSample.frequency + lastSample.binWidth,
                                maxFreq, lastSample)
  IN  [span |-> IF fill /\ gap.err = NilErr
                THEN [span EXCEPT !.samples = @ \o gap.points,
                                  !.frequencyEnd = maxFreq]
                ELSE [span EXCEPT !.frequencyEnd = lastSample.frequency],
       err |-> IF fill THEN gap.err ELSE NilErr]

\* the error left by an end of rows that closed a non-empty span
EndOfRowsKeepsGoing == NilErr
\* 499: sr.err = ErrNoData
EndOfRowsErr == ErrNoData

\* 584-592 Error
Error(sr) ==
  IF sr.err # NilErr /\ sr.err # ErrNoData THEN sr.err
  ELSE IF ~sr.rowsNil THEN sr.rowsErr
  ELSE NilErr

\* 114-129, 196-258: the reader after init; filter is <<>> (no frequency
\* filter, the bounds are MIN and MAX over the session's rows) or
\* <<lo, hi>>; the query returns the rows within the bounds in table order
FreqsOf(table) == {table[i].frequency : i \in 1..Len(table)}

SetMin(S) == CHOOSE x \in S : \A y \in S : x <= y

SetMax(S) == CHOOSE x \in S : \A y \in S : x >= y

RECURSIVE SelectRows(_, _, _)
SelectRows(table, lo, hi) ==
  IF table = <<>> THEN <<>>
  ELSE IF Head(table).frequency >= lo /\ Head(table).frequency <= hi
       THEN <<Head(table)>> \o SelectRows(Tail(table), lo, hi)
       ELSE SelectRows(Tail(table), lo, hi)

newSqliteSpectrumReader(table, filter, faults) ==
  LET minFreq == IF filter = <<>> THEN SetMin(FreqsOf(table)) ELSE filter[1]
      maxFreq == IF filter = <<>> THEN SetMax(FreqsOf(table)) ELSE filter[2]
      rows == SelectRows(table, minFreq, maxFreq)
  IN  [pc |-> "idle", rows |-> rows, rowsNil |-> FALSE, rowsErr |-> NilErr,
       minFreq |-> minFreq, maxFreq |-> maxFreq,
       currentSpan |-> NoSpan, nextSample |-> NoSample,
       nextSampleExists |-> FALSE, nextSpanStartTimestamp |-> 0,
       err |-> NilErr, ret |-> FALSE, ctxDone |-> FALSE,
       faults |-> faults,
       \* history
       matching |-> rows, rets |-> <<>>, delivered |-> <<>>, extra |-> 0]

\* Next returns v
Return(sr, v) == [sr EXCEPT !.pc = "ret", !.ret = v, !.rets = Append(@, v)]

ReaderFrame ==
  UNCHANGED <<writeDB, dbSamples, txRows, txState, wpc, werr, wreq, wi,
              wctxDone, wfail, handed, ncalls, tel, parser, cs, conf, bufVars, devVars, orch>>

\* 445-474: entry of Next, up to the loop
R_Next ==
  /\ reader.pc = "idle"
  /\ IF reader.err # NilErr \/ reader.rowsNil
     THEN reader' = Return(reader, FALSE)
     ELSE IF reader.nextSampleExists
     THEN LET s == StartSpan(reader.nextSpanStartTimestamp,
                             reader.nextSample, reader.minFreq)
          IN  IF s.err # NilErr
              THEN reader' = Return([reader EXCEPT !.currentSpan = s.span,
                                                   !.nextSampleExists = FALSE,
                                                   !.err = s.err], FALSE)
              ELSE reader' = [reader EXCEPT !.currentSpan = s.span,
                                            !.nextSampleExists = FALSE,
                                            !.pc = "loop"]
     ELSE reader' = [reader EXCEPT !.pc = "loop"]
  /\ ReaderFrame

\* 483-503: rows.Next() returned false
EndOfRows(sr) ==
  IF ~sr.currentSpan.isNil /\ Len(sr.currentSpan.samples) > 0
  THEN LET e == EndSpan(sr.currentSpan, sr.maxFreq)
       IN  IF e.err # NilErr
           THEN Return([sr EXCEPT !.currentSpan = e.span, !.err = e.err],
                       FALSE)
           ELSE Return([sr EXCEPT !.currentSpan = e.span,
                                  !.err = EndOfRowsErr], TRUE)
  ELSE Return(sr, FALSE)

\* a sample that does not ascend ends the span
RolloverOrEqual(sample, lastSample) ==
  sample.frequency <= lastSample.frequency
\* 542-544: the frequency rolled over when the sample lies below the
\* last sample of the span
Rollover(sample, lastSample) == sample.frequency < lastSample.frequency

\* 505-576: a row was scanned as sample at timestamp
Scanned(sr, timestamp, sample) ==
  IF sr.currentSpan.isNil
  THEN LET s == StartSpan(timestamp, sample, sr.minFreq)
       IN  IF s.err # NilErr
           THEN Return([sr EXCEPT !.currentSpan = s.span, !.err = s.err],
                       FALSE)
           ELSE [sr EXCEPT !.currentSpan = s.span]
  ELSE
    LET span == sr.currentSpan
        lastSample == span.samples[Len(span.samples)]
    IN  IF Rollover(sample, lastSample)
        THEN LET e == EndSpan(span, sr.maxFreq)
             IN  IF e.err # NilErr
                 THEN Return([sr EXCEPT !.currentSpan = e.span,
                                        !.err = e.err], FALSE)
                 ELSE Return([sr EXCEPT !.currentSpan = e.span,
                                        !.nextSample = sample,
                                        !.nextSampleExists = TRUE,
                                        !.nextSpanStartTimestamp = timestamp],
                             TRUE)
        ELSE
          LET fill == freqLess(lastSample.frequency + lastSample.binWidth,
                               sample.frequency, lastSample.binWidth)
              gap == fillFrequencyRange(
                       lastSample.frequency + lastSample.binWidth,
                       sample.frequency, lastSample)
          IN  IF fill /\ gap.err # NilErr
              THEN Return([sr EXCEPT !.err = gap.err], FALSE)
              ELSE [sr EXCEPT !.currentSpan.samples =
                      (IF fill THEN @ \o gap.points ELSE @) \o <<sample>>]

\* 475-577: one turn of the loop of Next
R_Loop ==
  /\ reader.pc = "loop"
  /\ IF reader.ctxDone
     THEN reader' = Return([reader EXCEPT !.err = ErrCtxCanceled], FALSE)
     ELSE \E fault \in {"none"} \cup reader.faults :
            CASE fault = "rows" ->
                   reader' = EndOfRows([reader EXCEPT !.rows = <<>>,
                                                      !.rowsErr = ErrRows])
              [] fault = "scan" ->
                   /\ reader.rows # <<>>
                   /\ reader' = Return([reader EXCEPT !.rows = Tail(@),
                                                      !.err = ErrScan], FALSE)
              [] OTHER ->
                   IF reader.rows = <<>>
                   THEN reader' = EndOfRows(reader)
                   ELSE reader' = Scanned([reader EXCEPT !.rows = Tail(@)],
                                          Head(reader.rows).timestamp,
                                          ScanPoint(Head(reader.rows)))
  /\ ReaderFrame

\* the context passed to Next is cancelled
R_CtxCancel ==
  /\ reader.pc \in {"idle", "loop"}
  /\ "ctx" \in reader.faults
  /\ ~reader.ctxDone
  /\ reader' = [reader EXCEPT !.ctxDone = TRUE]
  /\ ReaderFrame

\* 580-582: the client's loop body takes Current() after Next returned true
R_Current ==
  /\ reader.pc = "ret"
  /\ reader.ret
  /\ reader' = [reader EXCEPT !.pc = "idle",
                              !.delivered = Append(@, reader.currentSpan)]
  /\ ReaderFrame

\* the client calls Next again after it returned false
R_Again ==
  /\ reader.pc = "ret"
  /\ ~reader.ret
  /\ reader.extra < MaxExtraNext
  /\ reader' = [reader EXCEPT !.pc = "idle", !.extra = @ + 1]
  /\ ReaderFrame

\* 594-603 Close
R_Close ==
  /\ reader.pc = "ret"
  /\ ~reader.ret
  /\ ~reader.rowsNil
  /\ reader' = [reader EXCEPT !.currentSpan = NoSpan,
                              !.nextSampleExists = FALSE,
                              !.rowsNil = TRUE, !.rows = <<>>]
  /\ ReaderFrame

\* the rows of a session in the order of the query: by timestamp, then
\* by frequency
RowKeys == {<<ts, f>> : ts \in 1..MaxTs, f \in 0..MaxReaderFreq}

Ordered(s) ==
  \A i \in 1..(Len(s) - 1) :
    \/ s[i][1] < s[i + 1][1]
    \/ s[i][1] = s[i + 1][1] /\ s[i][2] <= s[i + 1][2]

\* row i has power -(40 + i), or NULL when i = nullRow
TableOf(keys, nullRow) ==
  [i \in 1..Len(keys) |->
     SampleRow(i, keys[i][1], keys[i][2],
               IF i = nullRow THEN SqlNull ELSE SqlVal(0 - (40 + i)), 1)]

Tables ==
  {TableOf(keys, n) : keys \in {s \in SeqsUpTo(RowKeys, MaxRows) :
                                   Len(s) >= 1 /\ Ordered(s)},
                      n \in {0, 1}}

Filters ==
  {<<>>} \cup {p \in (0..MaxReaderFreq) \X (0..MaxReaderFreq) : p[1] <= p[2]}

\* part_016 scenario of the spec: one row at 300 MHz read with the
\* bounds 100..500 MHz
GapFillTable == <<SampleRow(1, 1, 300, SqlVal(0 - 41), 1)>>

GapFillFilter == <<100, 500>>

\* rows at 100, 200, 300, 100, 200 MHz, read without filters
RolloverTable ==
  <<SampleRow(1, 1, 100, SqlVal(0 - 41), 1),
    SampleRow(2, 1, 200, SqlVal(0 - 42), 1),
    SampleRow(3, 1, 300, SqlVal(0 - 43), 1),
    SampleRow(4, 2, 100, SqlVal(0 - 44), 1),
    SampleRow(5, 2, 200, SqlVal(0 - 45), 1)>>

AllFaults == {"rows", "scan", "ctx"}

\* the faults of the environment a run may meet: none, or a failing
\* rows.Next, a failing Scan and a cancelled context
FaultSets == {{}, AllFaults}

ReaderInputs ==
  {newSqliteSpectrumReader(t, f, fs) :
     t \in Tables, f \in Filters, fs \in FaultSets}
  \cup {newSqliteSpectrumReader(GapFillTable, GapFillFilter, {}),
        newSqliteSpectrumReader(RolloverTable, <<>>, {})}

SpecReaderInit ==
  /\ WriterIdle
  /\ cs = NoSessions /\ conf = NoConf
  /\ tel = TelIdle
  /\ parser = NoParser
  /\ reader \in ReaderInputs
  /\ BufIdle /\ DevIdle /\ OrchIdle

SpecReaderNext ==
  \/ R_Next
  \/ R_Loop
  \/ R_CtxCancel
  \/ R_Current
  \/ R_Again
  \/ R_Close

SpecReader == SpecReaderInit /\ [][SpecReaderNext]_vars

\* ---------------------------------------------------------------------
\* Handler.Parse of the two device families and the rows of a sweep
\* (part_002: rtl; hackrf/device.go: hackrf)
\* A line is the sequence of its comma-separated fields; a field is "ok"
\* when it parses as what its position requires and "bad" otherwise.
\* ---------------------------------------------------------------------
FieldKinds == {"ok", "bad"}

\* fields in front of the power values: date, time, low and high
\* frequency, bin width, number of samples
HeaderFields == 6

\* the values an "ok" field parses to
LineStartFrequency == 0

LineBinWidth == 2

LineNumSamples == 1

PowerOf(i) == 0 - (50 + i)

\* the power fields of a line: fields[6:]
PowerFields(line) == SubSeq(line, HeaderFields + 1, Len(line))

\* center frequency of bin i (counted from 0)
CenterFrequency(i) ==
  LineStartFrequency + (i * LineBinWidth) + (LineBinWidth \div 2)

ParseResult(err, sweep) == [err |-> err, sweep |-> sweep]

\* part_002 46-102: the rtl handler
ParseRTL(line, deviceID) ==
  IF Len(line) < 7 THEN ParseResult("not enough fields", NoSweep)
  ELSE IF line[1] = "bad" \/ line[2] = "bad"
    THEN ParseResult("invalid timestamp", NoSweep)
  ELSE IF line[3] = "bad" THEN ParseResult("invalid start frequency", NoSweep)
  ELSE IF line[4] = "bad" THEN ParseResult("invalid end frequency", NoSweep)
  ELSE IF line[5] = "bad" THEN ParseResult("invalid bin width", NoSweep)
  ELSE IF line[6] = "bad"
    THEN ParseResult("invalid number of samples", NoSweep)
  ELSE
    LET fields == PowerFields(line)
        readings == [i \in 1..Len(fields) |->
                       IF fields[i] = "ok"
                       THEN PowerReading(CenterFrequency(i - 1), PowerOf(i), TRUE)
                       ELSE PowerReading(CenterFrequency(i - 1), 0, FALSE)]
    IN  ParseResult(NilErr,
          SweepResult(1, LineStartFrequency,
                      LineStartFrequency + Len(fields) * LineBinWidth,
                      LineBinWidth, LineNumSamples, readings, "RTL-SDR",
                      deviceID))

\* the valid power fields of a line, as the samples the hackrf handler emits
RECURSIVE ValidSamples(_, _)
ValidSamples(fields, i) ==
  IF i > Len(fields) THEN <<>>
  ELSE (IF fields[i] = "ok"
        THEN <<PowerReading(CenterFrequency(i - 1), PowerOf(i), TRUE)>>
        ELSE <<>>) \o ValidSamples(fields, i + 1)

\* hackrf/device.go 42-97: the hackrf handler; the high frequency is not
\* parsed, and a power field that does not parse is skipped (75-78)
ParseHackRF(line, deviceID) ==
  IF Len(line) < 7 THEN ParseResult("not enough fields", NoSweep)
  ELSE IF line[1] = "bad" \/ line[2] = "bad"
    THEN ParseResult("invalid timestamp", NoSweep)
  ELSE IF line[3] = "bad" THEN ParseResult("invalid start frequency", NoSweep)
  ELSE IF line[5] = "bad" THEN ParseResult("invalid bin width", NoSweep)
  ELSE IF line[6] = "bad"
    THEN ParseResult("invalid number of samples", NoSweep)
  ELSE
    LET fields == PowerFields(line)
    IN  ParseResult(NilErr,
          SweepResult(1, LineStartFrequency,
                      LineStartFrequency + Len(fields) * LineBinWidth,
                      LineBinWidth, LineNumSamples, ValidSamples(fields, 1),
                      "HackRF", deviceID))

Families == {"rtl", "hackrf"}

Parse(family, line, deviceID) ==
  IF family = "rtl" THEN ParseRTL(line, deviceID)
  ELSE ParseHackRF(line, deviceID)

NewParser(family, line) ==
  [pc |-> "line", family |-> family, line |-> line, err |-> NilErr,
   sweep |-> NoSweep]

ParserFrame ==
  UNCHANGED <<reader, tel, cs, conf, bufVars, devVars, orch>>

\* the handler parses the line
P_Parse ==
  /\ parser.pc = "line"
  /\ LET res == Parse(parser.family, parser.line, 1)
     IN  parser' = [parser EXCEPT !.pc = "parsed", !.err = res.err,
                                  !.sweep = res.sweep]
  /\ UNCHANGED <<writeDB, dbSamples, txRows, txState, wpc, werr, wreq, wi,
                 wctxDone, wfail, handed, ncalls>>
  /\ ParserFrame

\* the sweep of a parsed line reaches StoreSweepResult
P_Store ==
  /\ parser.pc = "parsed"
  /\ parser.err = NilErr
  /\ parser' = [parser EXCEPT !.pc = "stored"]
  /\ SSR_Enter(1, NoTelemetry, parser.sweep)
  /\ UNCHANGED <<writeDB, dbSamples, ncalls>>
  /\ ParserFrame

OutputLines == SeqsUpTo(FieldKinds, HeaderFields + MaxPowerFields)

SpecParseInit ==
  /\ WriterIdle
  /\ cs = NoSessions /\ conf = NoConf
  /\ reader = NoReader
  /\ tel = TelIdle
  /\ parser \in {NewParser(f, l) : f \in Families, l \in OutputLines}
  /\ BufIdle /\ DevIdle /\ OrchIdle

SpecParseNext ==
  \/ P_Parse
  \/ P_Store
  \/ SSR_GetDB /\ UNCHANGED <<bufVars, devVars, orch>>
  \/ SSR_BeginTx /\ UNCHANGED <<bufVars, devVars, orch>>
  \/ SSR_Prepare /\ UNCHANGED <<bufVars, devVars, orch>>
  \/ SSR_Exec /\ UNCHANGED <<bufVars, devVars, orch>>
  \/ SSR_Commit /\ UNCHANGED <<bufVars, devVars, orch>>
  \/ SSR_DeferClose /\ UNCHANGED <<bufVars, devVars, orch>>
  \/ SSR_DeferRollback /\ UNCHANGED <<bufVars, devVars, orch>>
  \/ SSR_CtxCancel /\ UNCHANGED <<bufVars, devVars, orch>>

SpecParse == SpecParseInit /\ [][SpecParseNext]_vars

\* ---------------------------------------------------------------------
\* The rtl handler's Parse on the values of a line (part_002 46-102)
\* A field is a token: what kind of text it is and the value it stands for.
\*   "date", "time"  the two halves of a timestamp, v the day and the second
\*   "int"           a decimal integer: ParseFloat and Atoi accept it
\*   "float"         a decimal with a fraction or an exponent: only
\*                   ParseFloat accepts it
\*   "junk"          text neither accepts, the empty field included
\* ---------------------------------------------------------------------
Token(kind, v) == [kind |-> kind, v |-> v]

\* time.Parse("2006-01-02 15:04:05", date + " " + time) (60)
ParseTime(date, time) ==
  IF date.kind = "date" /\ time.kind = "time"
    THEN [ok |-> TRUE, v |-> date.v * 100 + time.v]
    ELSE [ok |-> FALSE, v |-> 0]

\* strconv.ParseFloat(strings.TrimSpace(field), 64)
ParseFloat(field) ==
  IF field.kind \in {"int", "float"}
    THEN [ok |-> TRUE, v |-> field.v] ELSE [ok |-> FALSE, v |-> 0]

\* strconv.Atoi(strings.TrimSpace(field))
Atoi(field) ==
  IF field.kind = "int" THEN [ok |-> TRUE, v |-> field.v] ELSE [ok |-> FALSE, v |-> 0]

\* the low edge of the bin in place of its center
BinStart(startFrequency, binWidth, i) == startFrequency + (i * binWidth)

\* 90: the frequency of the i-th reading (i counted from 0)
BinCenter(startFrequency, binWidth, i) ==
  startFrequency + (i * binWidth) + (binWidth \div 2)

\* 88-99: one reading per field of fields[6:]
RtlReading(field, startFrequency, binWidth, i) ==
  IF ParseFloat(field).ok
    THEN PowerReading(BinCenter(startFrequency, binWidth, i), ParseFloat(field).v, TRUE)
    ELSE PowerReading(BinCenter(startFrequency, binWidth, i), 0, FALSE)

\* part_002 46-102
RtlParse(fields, deviceID) ==
  IF Len(fields) < 7 THEN ParseResult("not enough fields", NoSweep)
  ELSE IF ~ParseTime(fields[1], fields[2]).ok
    THEN ParseResult("invalid timestamp", NoSweep)
  ELSE IF ~ParseFloat(fields[3]).ok
    THEN ParseResult("invalid start frequency", NoSweep)
  ELSE IF ~ParseFloat(fields[4]).ok
    THEN ParseResult("invalid end frequency", NoSweep)
  ELSE IF ~ParseFloat(fields[5]).ok
    THEN ParseResult("invalid bin width", NoSweep)
  ELSE IF ~Atoi(fields[6]).ok
    THEN ParseResult("invalid number of samples", NoSweep)
  ELSE
    LET power == SubSeq(fields, 7, Len(fields))
        low == ParseFloat(fields[3]).v
        bin == ParseFloat(fields[5]).v
    IN  ParseResult(NilErr,
          SweepResult(ParseTime(fields[1], fields[2]).v, low,
                      ParseFloat(fields[4]).v, bin, Atoi(fields[6]).v,
                      [i \in 1..Len(power) |-> RtlReading(power[i], low, bin, i - 1)],
                      "RTL-SDR", deviceID))

Junk == Token("junk", 0)

\* the first six fields of a line, well-formed or not
Headers ==
  {<<d, t, lo, hi, bw, n>> :
     d \in {Token("date", 1), Junk}, t \in {Token("time", 1), Token("time", 2), Junk},
     lo \in {Token("int", 0), Token("int", 100), Junk},
     hi \in {Token("int", 104), Token("float", 250), Junk},
     bw \in {Token("int", 2), Token("float", 4), Junk},
     n \in {Token("int", 1), Token("float", 1), Junk}}

PowerTokens == {Token("float", 0 - 50), Token("int", 7), Junk}

TokenLines ==
  {h \o p : h \in Headers, p \in SeqsUpTo(PowerTokens, MaxPowerFields)}
  \cup {SubSeq(h, 1, k) : h \in Headers, k \in 4..5}

\* the rtl handler parses the line
P_RtlParse ==
  /\ parser.pc = "line"
  /\ LET res == RtlParse(parser.line, 1)
     IN  parser' = [parser EXCEPT !.pc = "parsed", !.err = res.err,
                                  !.sweep = res.sweep]
  /\ UNCHANGED <<writeDB, dbSamples, txRows, txState, wpc, werr, wreq, wi,
                 wctxDone, wfail, handed, ncalls>>
  /\ ParserFrame

SpecRtlParseInit ==
  /\ WriterIdle
  /\ cs = NoSessions /\ conf = NoConf
  /\ reader = NoReader
  /\ tel = TelIdle
  /\ parser \in {NewParser("rtl", l) : l \in TokenLines}
  /\ BufIdle /\ DevIdle /\ OrchIdle

SpecRtlParseNext == P_RtlParse

SpecRtlParse == SpecRtlParseInit /\ [][SpecRtlParseNext]_vars

\* ---------------------------------------------------------------------
\* The buffer driven directly: Insert, Flush and Drain in any order
\* ---------------------------------------------------------------------
\* one chunk line of a sweep: one bin wide, starting at slot f
Chunk(f, ts) == SweepResult(ts, f, f + 1, 1, 1, <<>>, "hackrf", 1)

SlotChunks == {Chunk(f, ts) : f \in 0..(NumSlots - 1), ts \in 1..MaxTs}

\* TestFrequencyBuffer_Ordering (part_007 64-154): start frequencies in
\* units of 100 kHz, timestamps in microseconds after baseTime
LiteralOrder ==
  <<Chunk(50007, 0), Chunk(50006, 0), Chunk(50008, 0), Chunk(10, 1000000),
    Chunk(50009, 2000000), Chunk(13, 3000000), Chunk(12, 3000000)>>

LiteralExpected == <<50006, 50007, 50008, 50009, 10, 12, 13>>

BufInsert ==
  /\ nins < MaxInserts
  /\ \E c \in pool :
       /\ sb' = Insert(sb, c)
       /\ pool' = IF oneShot THEN pool \ {c} ELSE pool
  /\ nins' = nins + 1
  /\ lastOp' = "insert"
  /\ out' = <<>>
  /\ bufErr' = NilErr
  /\ UNCHANGED <<oneShot, nblocks, newArgs>>

BufFlush ==
  /\ out' = FlushBlock(sb)
  /\ sb' = FlushRest(sb)
  /\ lastOp' = "flush"
  /\ nblocks' = Min2(nblocks + 1, 2)
  /\ bufErr' = NilErr
  /\ UNCHANGED <<pool, oneShot, nins, newArgs>>

BufDrain ==
  /\ out' = DrainBlock(sb)
  /\ sb' = DrainRest(sb)
  /\ lastOp' = "drain"
  /\ nblocks' = Min2(nblocks + 1, 2)
  /\ bufErr' = NilErr
  /\ UNCHANGED <<pool, oneShot, nins, newArgs>>

SpecBufInit ==
  /\ StoreInit
  /\ DevIdle
  /\ OrchIdle
  /\ \E cap \in 1..MaxCapacity : \E fc \in 1..cap : sb = NewBuffer(cap, fc)
  /\ pool = SlotChunks
  /\ oneShot = FALSE
  /\ out = <<>>
  /\ lastOp = "new"
  /\ nblocks = 0
  /\ nins = 0
  /\ Constructed

SpecBufNext ==
  \/ BufInsert /\ UNCHANGED <<storeVars, devVars, orch>>
  \/ BufFlush /\ UNCHANGED <<storeVars, devVars, orch>>
  \/ BufDrain /\ UNCHANGED <<storeVars, devVars, orch>>

SpecBuf == SpecBufInit /\ [][SpecBufNext]_vars

\* Insert(nil)
BufInsertNil ==
  /\ sb' = InsertNil(sb).buf
  /\ bufErr' = InsertNil(sb).err
  /\ lastOp' = "insert nil"
  /\ out' = <<>>
  /\ UNCHANGED <<pool, oneShot, nblocks, nins, newArgs>>

\* the buffer constructed with parameters inside and outside its domain;
\* a caller that got no buffer calls nothing on it
SpecBufDomainInit ==
  /\ StoreInit
  /\ DevIdle
  /\ OrchIdle
  /\ \E cap \in (0 - 1)..MaxCapacity : \E fc \in (0 - 1)..(MaxCapacity + 1) :
       /\ newArgs = [capacity |-> cap, flushCount |-> fc]
       /\ sb = NewFrequencyBuffer(cap, fc).buf
       /\ bufErr = NewFrequencyBuffer(cap, fc).err
  /\ pool = {c \in SlotChunks : c.timestamp = 1}
  /\ oneShot = FALSE
  /\ out = <<>>
  /\ lastOp = "new"
  /\ nblocks = 0
  /\ nins = 0

SpecBufDomainNext ==
  \/ sb # NoBuffer /\ BufInsert /\ UNCHANGED <<storeVars, devVars, orch>>
  \/ sb # NoBuffer /\ BufInsertNil /\ UNCHANGED <<storeVars, devVars, orch>>
  \/ sb # NoBuffer /\ BufFlush /\ UNCHANGED <<storeVars, devVars, orch>>
  \/ sb # NoBuffer /\ BufDrain /\ UNCHANGED <<storeVars, devVars, orch>>

SpecBufDomain == SpecBufDomainInit /\ [][SpecBufDomainNext]_vars

\* the chunks of TestFrequencyBuffer_Ordering, inserted in every order
SpecRolloverInit ==
  /\ StoreInit
  /\ DevIdle
  /\ OrchIdle
  /\ sb = NewBuffer(10, 5)
  /\ pool = Range(LiteralOrder)
  /\ oneShot = TRUE
  /\ out = <<>>
  /\ lastOp = "new"
  /\ nblocks = 0
  /\ nins = 0
  /\ Constructed

SpecRolloverNext ==
  \/ /\ \E c \in pool :
          /\ sb' = Insert(sb, c)
          /\ pool' = pool \ {c}
     /\ nins' = nins + 1
     /\ lastOp' = "insert"
     /\ out' = <<>>
     /\ UNCHANGED <<oneShot, nblocks, newArgs, bufErr, storeVars, devVars, orch>>
  \/ /\ pool = {}
     /\ BufDrain
     /\ UNCHANGED <<storeVars, devVars, orch>>

SpecRollover == SpecRolloverInit /\ [][SpecRolloverNext]_vars

\* TestFrequencyBuffer_FlushBehavior (part_007 156-220): start frequencies in
\* units of 200 kHz, timestamps in microseconds after baseTime
FlushTestSweeps == <<Chunk(25003, 0), Chunk(25004, 1000000), Chunk(5, 2000000)>>

FlushTestExpected == <<25003, 25004>>

\* the sweeps of TestFrequencyBuffer_FlushBehavior, inserted in every order,
\* then flushed
SpecFlushTestInit ==
  /\ StoreInit
  /\ DevIdle
  /\ OrchIdle
  /\ sb = NewBuffer(3, 2)
  /\ pool = Range(FlushTestSweeps)
  /\ oneShot = TRUE
  /\ out = <<>>
  /\ lastOp = "new"
  /\ nblocks = 0
  /\ nins = 0
  /\ Constructed

SpecFlushTestNext ==
  \/ /\ \E c \in pool :
          /\ sb' = Insert(sb, c)
          /\ pool' = pool \ {c}
     /\ nins' = nins + 1
     /\ lastOp' = "insert"
     /\ out' = <<>>
     /\ UNCHANGED <<oneShot, nblocks, newArgs, bufErr, storeVars, devVars, orch>>
  \/ /\ pool = {}
     /\ BufFlush
     /\ UNCHANGED <<storeVars, devVars, orch>>

SpecFlushTest == SpecFlushTestInit /\ [][SpecFlushTestNext]_vars

\* ---------------------------------------------------------------------
\* One device driven directly: BeginSampling and Stop from several threads
\* ---------------------------------------------------------------------
\* fixed parts of a run: the threads, the lines a child may write and
\* whether reading a pipe may fail
Config(callers, stoppers, isOrch, lines, maxLines, pipeErrors) ==
  [callers |-> callers, stoppers |-> stoppers, orch |-> isOrch,
   lines |-> lines, maxLines |-> maxLines, pipeErrors |-> pipeErrors]

SpecDevInit ==
  /\ StoreInit
  /\ BufIdle
  /\ OrchIdle
  /\ cfg = Config(Callers, {}, FALSE, {GoodLine(Chunk(0, 1))}, 1, FALSE)
  /\ dev = [d \in {1} |-> NewDevice(FALSE, 1, 1)]
  /\ sess = [c \in Callers |-> NewSession("idle")]
  /\ stop = <<>>
  /\ nstops = 0
  /\ ctxDone = FALSE
  /\ samplesCh = <<>>
  /\ samplesClosed = FALSE
  /\ panicked = "none"

SpecDevNext ==
  \/ \E c \in cfg.callers : B_Load(c)
  \/ \E c \in cfg.callers : B_Store(c)
  \/ \E c \in cfg.callers : B_Ctx(c)
  \/ \E c \in cfg.callers : B_Start(c)
  \/ \E c \in cfg.callers : B_Spawn(c)
  \/ \E c \in cfg.callers : B_RecvClosed(c)
  \/ \E c \in cfg.callers : ChildExit(c)
  \/ \E c \in cfg.callers : ChildKill(c)
  \/ \E c \in cfg.callers : T_ScanLine(c)
  \/ \E c \in cfg.callers : T_ScanEnd(c)
  \/ \E c \in cfg.callers : T_Send(c)
  \/ \E c \in cfg.callers : T_Final(c)
  \/ \E c \in cfg.callers : T_Stderr(c)
  \/ \E c \in cfg.callers : T_Wait(c)
  \/ \E c \in cfg.callers : C_Recv(c)
  \/ \E c \in cfg.callers : C_Finish(c)
  \/ \E c \in cfg.callers : C_Send(c)
  \/ \E c \in cfg.callers : C_Close(c)
  \/ ExternalCancel
  \/ SinkRecv

SpecDev == SpecDevInit /\ [][SpecDevNext]_vars

\* ---------------------------------------------------------------------
\* One sampling session and threads that call Stop on its device
\* ---------------------------------------------------------------------
SpecStopInit ==
  /\ StoreInit
  /\ BufIdle
  /\ OrchIdle
  /\ cfg = Config({1}, Stoppers, FALSE, {GoodLine(Chunk(0, 1))}, 1, TRUE)
  /\ dev = [d \in {1} |-> NewDevice(FALSE, 1, 1)]
  /\ sess = [c \in {1} |-> NewSession("idle")]
  /\ stop = [t \in Stoppers |-> NewStop]
  /\ nstops = 0
  /\ ctxDone = FALSE
  /\ samplesCh = <<>>
  /\ samplesClosed = FALSE
  /\ panicked = "none"

SpecStopNext ==
  \/ \E c \in cfg.callers : B_Load(c)
  \/ \E c \in cfg.callers : B_Store(c)
  \/ \E c \in cfg.callers : B_Ctx(c)
  \/ \E c \in cfg.callers : B_Start(c)
  \/ \E c \in cfg.callers : B_Spawn(c)
  \/ \E c \in cfg.callers : B_RecvClosed(c)
  \/ \E c \in cfg.callers : ChildExit(c)
  \/ \E c \in cfg.callers : ChildKill(c)
  \/ \E c \in cfg.callers : T_ScanLine(c)
  \/ \E c \in cfg.callers : T_ScanEnd(c)
  \/ \E c \in cfg.callers : T_Send(c)
  \/ \E c \in cfg.callers : T_Final(c)
  \/ \E c \in cfg.callers : T_Stderr(c)
  \/ \E c \in cfg.callers : T_Wait(c)
  \/ \E c \in cfg.callers : C_Recv(c)
  \/ \E c \in cfg.callers : C_Finish(c)
  \/ \E c \in cfg.callers : C_Send(c)
  \/ \E c \in cfg.callers : C_Close(c)
  \/ \E t \in cfg.stoppers : S_Load(t)
  \/ \E t \in cfg.stoppers : S_Cancel(t)
  \/ \E t \in cfg.stoppers : S_Wait(t)
  \/ \E t \in cfg.stoppers : S_Store(t)
  \/ ExternalCancel
  \/ SinkRecv

SpecStop == SpecStopInit /\ [][SpecStopNext]_vars

\* ---------------------------------------------------------------------
\* One sampling session reading every output of at most MaxLines lines
\* ---------------------------------------------------------------------
Lines == {BlankLine, BadLine, GoodLine(Chunk(0, 1))}

SpecStdoutInit ==
  /\ StoreInit
  /\ BufIdle
  /\ OrchIdle
  /\ cfg = Config({1}, {}, FALSE, Lines, MaxLines, FALSE)
  /\ dev = [d \in {1} |-> NewDevice(FALSE, 1, 1)]
  /\ sess = [c \in {1} |-> NewSession("idle")]
  /\ stop = <<>>
  /\ nstops = 0
  /\ ctxDone = FALSE
  /\ samplesCh = <<>>
  /\ samplesClosed = FALSE
  /\ panicked = "none"

SpecStdoutNext ==
  \/ \E c \in cfg.callers : B_Load(c)
  \/ \E c \in cfg.callers : B_Store(c)
  \/ \E c \in cfg.callers : B_Ctx(c)
  \/ \E c \in cfg.callers : B_Start(c)
  \/ \E c \in cfg.callers : B_Spawn(c)
  \/ \E c \in cfg.callers : B_RecvClosed(c)
  \/ \E c \in cfg.callers : ChildExit(c)
  \/ \E c \in cfg.callers : ChildKill(c)
  \/ \E c \in cfg.callers : T_ScanLine(c)
  \/ \E c \in cfg.callers : T_ScanEnd(c)
  \/ \E c \in cfg.callers : T_Send(c)
  \/ \E c \in cfg.callers : T_Final(c)
  \/ \E c \in cfg.callers : T_Stderr(c)
  \/ \E c \in cfg.callers : T_Wait(c)
  \/ \E c \in cfg.callers : C_Recv(c)
  \/ \E c \in cfg.callers : C_Finish(c)
  \/ \E c \in cfg.callers : C_Send(c)
  \/ \E c \in cfg.callers : C_Close(c)
  \/ SinkRecv

SpecStdout == SpecStdoutInit /\ [][SpecStdoutNext]_vars

\* ---------------------------------------------------------------------
\* One sampling session of a device with a SweepsBuffer attached
\* (capacity 2, flushCount 1)
\* ---------------------------------------------------------------------
\* the first and the sixth chunk of a sweep, which the child may write in
\* any order and any number of times, and lines that do not parse
BufferedLines == {BadLine, GoodLine(Chunk(0, 1)), GoodLine(Chunk(5, 1))}

SpecBufferedInit ==
  /\ StoreInit
  /\ BufIdle
  /\ OrchIdle
  /\ cfg = Config({1}, {}, FALSE, BufferedLines, MaxLines, FALSE)
  /\ dev = [d \in {1} |-> NewDevice(TRUE, 2, 1)]
  /\ sess = [c \in {1} |-> NewSession("idle")]
  /\ stop = <<>>
  /\ nstops = 0
  /\ ctxDone = FALSE
  /\ samplesCh = <<>>
  /\ samplesClosed = FALSE
  /\ panicked = "none"

SpecBufferedNext ==
  \/ \E c \in cfg.callers : B_Load(c)
  \/ \E c \in cfg.callers : B_Store(c)
  \/ \E c \in cfg.callers : B_Ctx(c)
  \/ \E c \in cfg.callers : B_Start(c)
  \/ \E c \in cfg.callers : B_Spawn(c)
  \/ \E c \in cfg.callers : B_RecvClosed(c)
  \/ \E c \in cfg.callers : ChildExit(c)
  \/ \E c \in cfg.callers : ChildKill(c)
  \/ \E c \in cfg.callers : T_ScanLine(c)
  \/ \E c \in cfg.callers : T_ScanEnd(c)
  \/ \E c \in cfg.callers : T_Send(c)
  \/ \E c \in cfg.callers : T_Final(c)
  \/ \E c \in cfg.callers : T_Stderr(c)
  \/ \E c \in cfg.callers : T_Wait(c)
  \/ \E c \in cfg.callers : C_Recv(c)
  \/ \E c \in cfg.callers : C_Finish(c)
  \/ \E c \in cfg.callers : C_Send(c)
  \/ \E c \in cfg.callers : C_Close(c)
  \/ SinkRecv

SpecBuffered == SpecBufferedInit /\ [][SpecBufferedNext]_vars

\* ---------------------------------------------------------------------
\* One sampling session of a device without a buffer whose child writes
\* two different chunks, blank lines and lines that do not parse
\* ---------------------------------------------------------------------
UnbufferedLines ==
  {BlankLine, BadLine, GoodLine(Chunk(0, 1)), GoodLine(Chunk(1, 1))}

SpecUnbufferedInit ==
  /\ StoreInit
  /\ BufIdle
  /\ OrchIdle
  /\ cfg = Config({1}, {}, FALSE, UnbufferedLines, MaxLines, FALSE)
  /\ dev = [d \in {1} |-> NewDevice(FALSE, 1, 1)]
  /\ sess = [c \in {1} |-> NewSession("idle")]
  /\ stop = <<>>
  /\ nstops = 0
  /\ ctxDone = FALSE
  /\ samplesCh = <<>>
  /\ samplesClosed = FALSE
  /\ panicked = "none"

SpecUnbufferedNext ==
  \/ \E c \in cfg.callers : B_Load(c)
  \/ \E c \in cfg.callers : B_Store(c)
  \/ \E c \in cfg.callers : B_Ctx(c)
  \/ \E c \in cfg.callers : B_Start(c)
  \/ \E c \in cfg.callers : B_Spawn(c)
  \/ \E c \in cfg.callers : B_RecvClosed(c)
  \/ \E c \in cfg.callers : ChildExit(c)
  \/ \E c \in cfg.callers : ChildKill(c)
  \/ \E c \in cfg.callers : T_ScanLine(c)
  \/ \E c \in cfg.callers : T_ScanEnd(c)
  \/ \E c \in cfg.callers : T_Send(c)
  \/ \E c \in cfg.callers : T_Final(c)
  \/ \E c \in cfg.callers : T_Stderr(c)
  \/ \E c \in cfg.callers : T_Wait(c)
  \/ \E c \in cfg.callers : C_Recv(c)
  \/ \E c \in cfg.callers : C_Finish(c)
  \/ \E c \in cfg.callers : C_Send(c)
  \/ \E c \in cfg.callers : C_Close(c)
  \/ SinkRecv

SpecUnbuffered == SpecUnbufferedInit /\ [][SpecUnbufferedNext]_vars

\* ---------------------------------------------------------------------
\* One sampling session of a device with a SweepsBuffer of any valid
\* capacity and flushCount attached
\* ---------------------------------------------------------------------
BoundedLines == {GoodLine(Chunk(0, 1)), GoodLine(Chunk(5, 1))}

SpecBoundedInit ==
  /\ StoreInit
  /\ BufIdle
  /\ OrchIdle
  /\ cfg = Config({1}, {}, FALSE, BoundedLines, MaxLines, FALSE)
  /\ \E cap \in 1..MaxCapacity : \E fc \in 1..cap :
       dev = [d \in {1} |-> NewDevice(TRUE, cap, fc)]
  /\ sess = [c \in {1} |-> NewSession("idle")]
  /\ stop = <<>>
  /\ nstops = 0
  /\ ctxDone = FALSE
  /\ samplesCh = <<>>
  /\ samplesClosed = FALSE
  /\ panicked = "none"

SpecBoundedNext ==
  \/ \E c \in cfg.callers : B_Load(c)
  \/ \E c \in cfg.callers : B_Store(c)
  \/ \E c \in cfg.callers : B_Ctx(c)
  \/ \E c \in cfg.callers : B_Start(c)
  \/ \E c \in cfg.callers : B_Spawn(c)
  \/ \E c \in cfg.callers : B_RecvClosed(c)
  \/ \E c \in cfg.callers : ChildExit(c)
  \/ \E c \in cfg.callers : ChildKill(c)
  \/ \E c \in cfg.callers : T_ScanLine(c)
  \/ \E c \in cfg.callers : T_ScanEnd(c)
  \/ \E c \in cfg.callers : T_Send(c)
  \/ \E c \in cfg.callers : T_Final(c)
  \/ \E c \in cfg.callers : T_Stderr(c)
  \/ \E c \in cfg.callers : T_Wait(c)
  \/ \E c \in cfg.callers : C_Recv(c)
  \/ \E c \in cfg.callers : C_Finish(c)
  \/ \E c \in cfg.callers : C_Send(c)
  \/ \E c \in cfg.callers : C_Close(c)
  \/ ExternalCancel
  \/ SinkRecv

SpecBounded == SpecBoundedInit /\ [][SpecBoundedNext]_vars

\* ---------------------------------------------------------------------
\* Two sampling sessions of one device, one after the other, and a thread
\* that calls Stop
\* ---------------------------------------------------------------------
\* the call of BeginSampling by caller c has returned
Returned(c) ==
  sess[c].bpc \in {"rejected", "failed", "waiting", "got", "gotclosed"}

SpecRestartInit ==
  /\ StoreInit
  /\ BufIdle
  /\ OrchIdle
  /\ cfg = Config(Callers, {1}, FALSE, {GoodLine(Chunk(0, 1))}, 1, FALSE)
  /\ dev = [d \in {1} |-> NewDevice(FALSE, 1, 1)]
  /\ sess = [c \in Callers |-> NewSession("idle")]
  /\ stop = [t \in {1} |-> NewStop]
  /\ nstops = 0
  /\ ctxDone = FALSE
  /\ samplesCh = <<>>
  /\ samplesClosed = FALSE
  /\ panicked = "none"

\* the second call of BeginSampling begins after the first has returned
SpecRestartNext ==
  \/ B_Load(1)
  \/ Returned(1) /\ B_Load(2)
  \/ \E c \in cfg.callers : B_Store(c)
  \/ \E c \in cfg.callers : B_Ctx(c)
  \/ \E c \in cfg.callers : B_Start(c)
  \/ \E c \in cfg.callers : B_Spawn(c)
  \/ \E c \in cfg.callers : B_RecvClosed(c)
  \/ \E c \in cfg.callers : ChildExit(c)
  \/ \E c \in cfg.callers : ChildKill(c)
  \/ \E c \in cfg.callers : T_ScanLine(c)
  \/ \E c \in cfg.callers : T_ScanEnd(c)
  \/ \E c \in cfg.callers : T_Send(c)
  \/ \E c \in cfg.callers : T_Final(c)
  \/ \E c \in cfg.callers : T_Stderr(c)
  \/ \E c \in cfg.callers : T_Wait(c)
  \/ \E c \in cfg.callers : C_Recv(c)
  \/ \E c \in cfg.callers : C_Finish(c)
  \/ \E c \in cfg.callers : C_Send(c)
  \/ \E c \in cfg.callers : C_Close(c)
  \/ \E t \in cfg.stoppers : S_Load(t)
  \/ \E t \in cfg.stoppers : S_Cancel(t)
  \/ \E t \in cfg.stoppers : S_Wait(t)
  \/ \E t \in cfg.stoppers : S_Store(t)
  \/ SinkRecv

SpecRestart == SpecRestartInit /\ [][SpecRestartNext]_vars

\* ---------------------------------------------------------------------
\* One sampling session whose tasks may fail: lines that do not parse and
\* failing reads of the pipes, under fair scheduling
\* ---------------------------------------------------------------------
SpecTasksInit ==
  /\ StoreInit
  /\ BufIdle
  /\ OrchIdle
  /\ cfg = Config({1}, {}, FALSE, {BadLine, GoodLine(Chunk(0, 1))}, MaxLines, TRUE)
  /\ dev = [d \in {1} |-> NewDevice(FALSE, 1, 1)]
  /\ sess = [c \in {1} |-> NewSession("idle")]
  /\ stop = <<>>
  /\ nstops = 0
  /\ ctxDone = FALSE
  /\ samplesCh = <<>>
  /\ samplesClosed = FALSE
  /\ panicked = "none"

SpecTasksNext ==
  \/ \E c \in cfg.callers : B_Load(c)
  \/ \E c \in cfg.callers : B_Store(c)
  \/ \E c \in cfg.callers : B_Ctx(c)
  \/ \E c \in cfg.callers : B_Start(c)
  \/ \E c \in cfg.callers : B_Spawn(c)
  \/ \E c \in cfg.callers : B_RecvClosed(c)
  \/ \E c \in cfg.callers : ChildExit(c)
  \/ \E c \in cfg.callers : ChildKill(c)
  \/ \E c \in cfg.callers : T_ScanLine(c)
  \/ \E c \in cfg.callers : T_ScanEnd(c)
  \/ \E c \in cfg.callers : T_Send(c)
  \/ \E c \in cfg.callers : T_Final(c)
  \/ \E c \in cfg.callers : T_Stderr(c)
  \/ \E c \in cfg.callers : T_Wait(c)
  \/ \E c \in cfg.callers : C_Recv(c)
  \/ \E c \in cfg.callers : C_Finish(c)
  \/ \E c \in cfg.callers : C_Send(c)
  \/ \E c \in cfg.callers : C_Close(c)
  \/ SinkRecv

\* the goroutines of the session, the operating system (which kills the
\* child of a cancelled context) and the receiver of the sink channel
\* keep running; the child need not write or exit
TasksProgress ==
  \/ \E c \in cfg.callers : ChildKill(c)
  \/ \E c \in cfg.callers : T_ScanEnd(c)
  \/ \E c \in cfg.callers : T_Send(c)
  \/ \E c \in cfg.callers : T_Final(c)
  \/ \E c \in cfg.callers : T_Stderr(c)
  \/ \E c \in cfg.callers : T_Wait(c)
  \/ \E c \in cfg.callers : C_Recv(c)
  \/ \E c \in cfg.callers : C_Finish(c)
  \/ \E c \in cfg.callers : C_Send(c)
  \/ \E c \in cfg.callers : C_Close(c)
  \/ SinkRecv

SpecTasks == SpecTasksInit /\ [][SpecTasksNext]_vars

SpecTasksFair == SpecTasks /\ WF_vars(TasksProgress)

\* ---------------------------------------------------------------------
\* Orchestrator.Run and the application around it (part_023, part_025)
\* ---------------------------------------------------------------------
\* the orchestrator after CreateDevice was called for every device of the
\* configuration, at the entry of Run
NewOrchestrator(devices) ==
  [rpc |-> "sessions", sessions |-> {}, wg |-> 0, gate |-> FALSE,
   gpc |-> [d \in devices |-> "none"], cpc |-> "none",
   runErr |-> NilErr, parentDone |-> FALSE, nstored |-> 0,
   lateStore |-> FALSE]

\* the device whose turn it is in a loop over o.devices
NextDevice(seen) ==
  CHOOSE d \in cfg.callers \ seen : \A e \in cfg.callers \ seen : d <= e

\* 97-104: CreateSession for the next device; Run returns the error of a
\* failed one (store.go 185-240: the write connection is opened on first use)
O_CreateSession ==
  LET d == NextDevice(orch.sessions) IN
  /\ orch.rpc = "sessions"
  /\ \E r \in {"ok", "getdb", "insert"} :
       /\ (r = "getdb") => (writeDB # "open")
       /\ (r # "getdb") => (writeDB # "error")
       /\ writeDB' = IF r = "getdb" THEN "error" ELSE "open"
       /\ IF r = "ok" /\ ~ctxDone
            THEN orch' = [orch EXCEPT !.sessions = @ \cup {d},
                            !.rpc = IF orch.sessions \cup {d} = cfg.callers
                                      THEN "consumer" ELSE "sessions"]
            ELSE orch' = [orch EXCEPT !.rpc = "ret",
                            !.runErr = "creating session for device"]
  /\ UNCHANGED <<dbSamples, txRows, txState, wpc, werr, wreq, wi, wctxDone,
                 wfail, handed, ncalls, reader, tel, parser, cs, conf, bufVars, devVars>>

\* 106-109: the gate and the fan-in channel are made, the consumer starts
O_GoConsumer ==
  /\ orch.rpc = "consumer"
  /\ orch' = [orch EXCEPT !.rpc = "spawn", !.cpc = "recv"]
  /\ UNCHANGED <<storeVars, bufVars, devVars>>

\* 111-114: o.wg.Add(1) and one goroutine per device
O_Spawn ==
  LET started == {d \in cfg.callers : orch.gpc[d] # "none"}
      d == NextDevice(started)
  IN
  /\ orch.rpc = "spawn"
  /\ orch' = [orch EXCEPT !.wg = @ + 1, !.gpc[d] = "gate",
                !.rpc = IF started \cup {d} = cfg.callers THEN "gate" ELSE "spawn"]
  /\ UNCHANGED <<storeVars, bufVars, devVars>>

\* 116: close(startGate)
O_CloseGate ==
  /\ orch.rpc = "gate"
  /\ orch' = [orch EXCEPT !.gate = TRUE, !.rpc = "wait"]
  /\ UNCHANGED <<storeVars, bufVars, devVars>>

\* 118: o.wg.Wait()
O_Wait ==
  /\ orch.rpc = "wait"
  /\ orch.wg = 0
  /\ orch' = [orch EXCEPT !.rpc = "cancel"]
  /\ UNCHANGED <<storeVars, bufVars, devVars>>

\* 119: o.cancel()
O_Cancel ==
  /\ orch.rpc = "cancel"
  /\ ctxDone' = TRUE
  /\ orch' = [orch EXCEPT !.rpc = "close"]
  /\ UNCHANGED <<storeVars, bufVars, cfg, dev, sess, stop, nstops, samplesCh,
                 samplesClosed, panicked>>

\* 121: close(samples)
O_CloseSamples ==
  /\ orch.rpc = "close"
  /\ samplesClosed' = TRUE
  /\ orch' = [orch EXCEPT !.rpc = "clear"]
  /\ UNCHANGED <<storeVars, bufVars, cfg, dev, sess, stop, nstops, ctxDone,
                 samplesCh, panicked>>

\* 122-123: clear(o.sessions); return nil
O_Return ==
  /\ orch.rpc = "clear"
  /\ orch' = [orch EXCEPT !.sessions = {}, !.rpc = "ret"]
  /\ UNCHANGED <<storeVars, bufVars, devVars>>

\* part_025 23, 36: Run has returned, the deferred store.Close runs, main
\* returns and the process ends with every goroutine that is left
O_AppExit ==
  /\ orch.rpc = "ret"
  /\ panicked = "none"
  /\ orch' = [orch EXCEPT !.rpc = "exited"]
  /\ UNCHANGED <<storeVars, bufVars, devVars>>

\* the context passed to Run is cancelled (a signal reached main); the
\* context Run derives from it at 95 is done with it
O_ParentCancel ==
  /\ Alive
  /\ ~orch.parentDone
  /\ orch' = [orch EXCEPT !.parentDone = TRUE]
  /\ ctxDone' = TRUE
  /\ UNCHANGED <<storeVars, bufVars, cfg, dev, sess, stop, nstops, samplesCh,
                 samplesClosed, panicked>>

\* ---- beginSampling (126-141) ----
\* a device goroutine that does not wait for the gate
GateIgnored == TRUE

\* 129: <-startGate returns once the gate is closed
GateOpen == orch.gate

\* 129-133: the gate opens and dev.BeginSampling is called
G_Begin(d) ==
  /\ Alive
  /\ orch.gpc[d] = "gate"
  /\ GateOpen
  /\ orch' = [orch EXCEPT !.gpc[d] = "call"]
  /\ sess' = [sess EXCEPT ![d].bpc = "idle"]
  /\ UNCHANGED <<storeVars, bufVars, cfg, dev, stop, nstops, ctxDone, samplesCh,
                 samplesClosed, panicked>>

\* 134-138, 127: BeginSampling returned an error: o.cancel(), wg.Done()
G_Failed(d) ==
  /\ Alive
  /\ orch.gpc[d] = "call"
  /\ sess[d].bpc \in {"rejected", "failed"}
  /\ ctxDone' = TRUE
  /\ orch' = [orch EXCEPT !.gpc[d] = "done", !.wg = @ - 1]
  /\ UNCHANGED <<storeVars, bufVars, cfg, dev, sess, stop, nstops, samplesCh,
                 samplesClosed, panicked>>

\* 140, 127: <-done returned, wg.Done()
G_Done(d) ==
  /\ Alive
  /\ orch.gpc[d] = "call"
  /\ sess[d].bpc \in {"got", "gotclosed"}
  /\ orch' = [orch EXCEPT !.gpc[d] = "done", !.wg = @ - 1]
  /\ UNCHANGED <<storeVars, bufVars, devVars>>

\* ---- handleSweepResults, storeSweepResult (143-168) ----
\* part_018 123-138: placeholders of insertTelemetrySQL
TelemetryPlaceholders == 12

\* part_017 260-276: arguments StoreTelemetry hands to ExecContext
TelemetryArgs == 14

\* part_017 260-280: database/sql rejects an Exec whose argument count
\* differs from the statement's placeholders; otherwise the insert
\* succeeds or fails
ExecTelemetryOutcomes ==
  IF TelemetryArgs # TelemetryPlaceholders THEN {"fail"} ELSE {"ok", "fail"}

\* part_012 7-9: what Provider.Get() may return on any call, the most
\* recent snapshot or nothing
GetValues == {"nil", "snapshot"}

\* 144, 153-157: one sample is received and its session id is looked up in
\* o.sessions (0 for a missing key); without a provider, or when Get()
\* returns nil, StoreSweepResult is entered with no telemetry id (167)
K_Recv ==
  /\ Alive
  /\ orch.cpc = "recv"
  /\ samplesCh # <<>>
  /\ LET r == Head(samplesCh)
         sessionID == IF r.deviceID \in orch.sessions THEN r.deviceID ELSE 0
     IN  \E tm \in (IF tel.provider THEN GetValues ELSE {"nil"}) :
           IF tm = "nil"
             THEN /\ SSR_Enter(sessionID, NoTelemetry, r)
                  /\ tel' = [tel EXCEPT !.taken = @ + 1, !.outcome = "none"]
                  /\ orch' = [orch EXCEPT !.cpc = "store", !.nstored = @ + 1,
                                 !.lateStore = @ \/ orch.rpc = "ret"]
             ELSE /\ tel' = [tel EXCEPT !.taken = @ + 1, !.cur = r,
                                        !.sessionID = sessionID,
                                        !.outcome = "none"]
                  /\ orch' = [orch EXCEPT !.cpc = "telemetry"]
                  /\ UNCHANGED <<txRows, txState, wpc, werr, wreq, wi,
                                 wctxDone, wfail, handed>>
  /\ samplesCh' = Tail(samplesCh)
  /\ UNCHANGED <<writeDB, dbSamples, ncalls, reader, parser, cs, conf, bufVars, cfg, dev, sess, stop,
                 nstops, ctxDone, samplesClosed, panicked>>

\* 158-164, 167: StoreTelemetry is called with the result of a second
\* Get(); toTelemetryData (helpers.go 154-157) dereferences it. A failed
\* insert is logged; StoreSweepResult is entered with the new row's id or
\* with none
K_Telemetry ==
  /\ Alive
  /\ orch.cpc = "telemetry"
  /\ \E t \in GetValues, r \in ExecTelemetryOutcomes :
       IF t = "nil"
         THEN /\ panicked' = "nil pointer dereference"
              /\ UNCHANGED <<txRows, txState, wpc, werr, wreq, wi, wctxDone,
                             wfail, handed, tel, orch>>
         ELSE /\ IF r = "ok"
                   THEN /\ tel' = [tel EXCEPT
                                     !.table = Append(@, tel.sessionID),
                                     !.outcome = "ok"]
                        /\ SSR_Enter(tel.sessionID, Len(tel.table) + 1, tel.cur)
                   ELSE /\ tel' = [tel EXCEPT !.outcome = "failed"]
                        /\ SSR_Enter(tel.sessionID, NoTelemetry, tel.cur)
              /\ orch' = [orch EXCEPT !.cpc = "store", !.nstored = @ + 1,
                             !.lateStore = @ \/ orch.rpc = "ret"]
              /\ UNCHANGED panicked
  /\ UNCHANGED <<writeDB, dbSamples, ncalls, reader, parser, cs, conf, bufVars, cfg, dev, sess, stop,
                 nstops, ctxDone, samplesCh, samplesClosed>>

\* 146-148: StoreSweepResult returned; its error is only logged
K_Stored ==
  /\ Alive
  /\ orch.cpc = "store"
  /\ wpc = "ret"
  /\ orch' = [orch EXCEPT !.cpc = "recv"]
  /\ UNCHANGED <<storeVars, bufVars, devVars>>

\* 144: the channel is closed and empty, the loop ends
K_Exit ==
  /\ Alive
  /\ orch.cpc = "recv"
  /\ samplesCh = <<>>
  /\ samplesClosed
  /\ orch' = [orch EXCEPT !.cpc = "exit"]
  /\ UNCHANGED <<storeVars, bufVars, devVars>>

\* the sweep a device's handler parses from one output line
OrchLine == GoodLine(SweepResult(1, 0, 1, 1, 1, <<PowerReading(0, 1, TRUE)>>, "hackrf", 0))

\* the runs of the application: one device whose child writes up to
\* MaxOrchLines lines, or every device with children that write nothing
\* before they end
OrchConfigs ==
  {Config({1}, {}, TRUE, {OrchLine}, MaxOrchLines, FALSE),
   Config(Devices, {}, TRUE, {OrchLine}, 0, FALSE)}

SpecOrchInit ==
  /\ StoreInit
  /\ BufIdle
  /\ cfg \in OrchConfigs
  /\ orch = NewOrchestrator(cfg.callers)
  /\ dev = [d \in cfg.callers |-> NewDevice(FALSE, 1, 1)]
  /\ sess = [c \in cfg.callers |-> NewSession("none")]
  /\ stop = <<>>
  /\ nstops = 0
  /\ ctxDone = FALSE
  /\ samplesCh = <<>>
  /\ samplesClosed = FALSE
  /\ panicked = "none"

\* the steps of the program
OrchProgress ==
  \/ O_CreateSession
  \/ O_GoConsumer
  \/ O_Spawn
  \/ O_CloseGate
  \/ O_Wait
  \/ O_Cancel
  \/ O_CloseSamples
  \/ O_Return
  \/ O_AppExit
  \/ \E d \in cfg.callers : G_Begin(d)
  \/ \E d \in cfg.callers : G_Failed(d)
  \/ \E d \in cfg.callers : G_Done(d)
  \/ K_Recv
  \/ K_Stored
  \/ K_Exit
  \/ Alive /\ SSR_GetDB /\ UNCHANGED <<bufVars, devVars, orch>>
  \/ Alive /\ SSR_BeginTx /\ UNCHANGED <<bufVars, devVars, orch>>
  \/ Alive /\ SSR_Prepare /\ UNCHANGED <<bufVars, devVars, orch>>
  \/ Alive /\ SSR_Exec /\ UNCHANGED <<bufVars, devVars, orch>>
  \/ Alive /\ SSR_Commit /\ UNCHANGED <<bufVars, devVars, orch>>
  \/ Alive /\ SSR_DeferClose /\ UNCHANGED <<bufVars, devVars, orch>>
  \/ Alive /\ SSR_DeferRollback /\ UNCHANGED <<bufVars, devVars, orch>>
  \/ \E c \in cfg.callers : B_Load(c)
  \/ \E c \in cfg.callers : B_Store(c)
  \/ \E c \in cfg.callers : B_Ctx(c)
  \/ \E c \in cfg.callers : B_Start(c)
  \/ \E c \in cfg.callers : B_Spawn(c)
  \/ \E c \in cfg.callers : B_RecvClosed(c)
  \/ \E c \in cfg.callers : ChildKill(c)
  \/ \E c \in cfg.callers : T_ScanLine(c)
  \/ \E c \in cfg.callers : T_ScanEnd(c)
  \/ \E c \in cfg.callers : T_Send(c)
  \/ \E c \in cfg.callers : T_Final(c)
  \/ \E c \in cfg.callers : T_Stderr(c)
  \/ \E c \in cfg.callers : T_Wait(c)
  \/ \E c \in cfg.callers : C_Recv(c)
  \/ \E c \in cfg.callers : C_Finish(c)
  \/ \E c \in cfg.callers : C_Send(c)
  \/ \E c \in cfg.callers : C_Close(c)

\* what the program does not control: the parent context is cancelled, a
\* child ends by itself
OrchEnvironment ==
  \/ O_ParentCancel
  \/ \E c \in cfg.callers : ChildExit(c)

SpecOrchNext == OrchProgress \/ OrchEnvironment

SpecOrch == SpecOrchInit /\ [][SpecOrchNext]_vars

\* every goroutine that can take a step eventually takes one
SpecOrchFair == SpecOrch /\ WF_vars(OrchProgress)

\* an orchestrator built WithTelemetry: one device, a provider installed
SpecTelemetryInit ==
  /\ WriterIdle
  /\ cs = NoSessions /\ conf = NoConf
  /\ reader = NoReader
  /\ parser = NoParser
  /\ tel = NewTelemetry(TRUE)
  /\ BufIdle
  /\ cfg = Config({1}, {}, TRUE, {OrchLine}, MaxOrchLines, FALSE)
  /\ orch = NewOrchestrator(cfg.callers)
  /\ dev = [d \in cfg.callers |-> NewDevice(FALSE, 1, 1)]
  /\ sess = [c \in cfg.callers |-> NewSession("none")]
  /\ stop = <<>>
  /\ nstops = 0
  /\ ctxDone = FALSE
  /\ samplesCh = <<>>
  /\ samplesClosed = FALSE
  /\ panicked = "none"

SpecTelemetryNext ==
  \/ OrchProgress
  \/ OrchEnvironment
  \/ K_Telemetry

SpecTelemetry == SpecTelemetryInit /\ [][SpecTelemetryNext]_vars

\* ---------------------------------------------------------------------
\* C9, C10: order of the drained chunks
\* ---------------------------------------------------------------------
Starts(block) == [i \in 1..Len(block) |-> block[i].startFrequency]

Ascending(q) == \A i \in 1..(Len(q) - 1) : q[i] < q[i + 1]

DistinctStarts(block) ==
  \A i, j \in 1..Len(block) :
    i # j => block[i].startFrequency # block[j].startFrequency

\* the first block taken from the buffer is a Drain of everything inserted
FirstDrain == lastOp = "drain" /\ nblocks = 1 /\ Len(out) > 0

\* position of a chunk in the band discovered by the buffer
BandChunks(b) == TruncDiv(b.maxFreq - b.baseFreq, b.binWidth)

InLowHalf(b, s) ==
  getSweepOrder(b, s) < TruncDiv(b.maxFreq - b.baseFreq, 2 * b.binWidth)

HighFirst(b, block) ==
  \A i, j \in 1..Len(block) :
    (~InLowHalf(b, block[i]) /\ InLowHalf(b, block[j])) => i < j

AscendingInHalves(b, block) ==
  \A i, j \in 1..Len(block) :
    (i < j /\ InLowHalf(b, block[i]) = InLowHalf(b, block[j]))
      => block[i].startFrequency < block[j].startFrequency

\* C9: chunks of the high half of the discovered band (tail of one sweep)
\* and of its low half (head of the next sweep), inserted in any order, are
\* drained high half first, each half in ascending startFrequency.
C9_RolloverOrder ==
  (/\ FirstDrain
   /\ DistinctStarts(out)
   /\ BandChunks(sb) > minSpectrumChunksThreshold
   /\ \E i, j \in 1..Len(out) : InLowHalf(sb, out[i]) /\ ~InLowHalf(sb, out[j]))
    => (HighFirst(sb, out) /\ AscendingInHalves(sb, out))

\* C9, literal scenario: the seven chunks of TestFrequencyBuffer_Ordering
\* drain as 5.0006e9, 5.0007e9, 5.0008e9, 5.0009e9, 1.0e6, 1.2e6, 1.3e6
C9_Literal ==
  (FirstDrain /\ pool = {}) => Starts(out) = LiteralExpected

\* C10: chunks of one sweep with pairwise distinct frequencies, inserted
\* into an empty buffer in any order, are drained in ascending frequency.
C10_WithinSweepOrder ==
  (FirstDrain /\ DistinctStarts(out)) => Ascending(Starts(out))

\* ---------------------------------------------------------------------
\* C1, C2: StoreSweepResult
\* ---------------------------------------------------------------------
RowsOf(r) == {i \in 1..Len(dbSamples) : dbSamples[i].timestamp = r.timestamp}

\* C1: StoreSweepResult is atomic per sweep.  The samples table holds, of
\* every sweep handed to the store, either no row or one row per reading;
\* a call in which an insert failed or whose context was cancelled
\* mid-write returns an error with no row of its sweep persisted; a call
\* whose commit succeeded has every reading persisted.
C1_StoreAtomic ==
  /\ \A r \in handed : Cardinality(RowsOf(r)) \in {0, Len(r.readings)}
  /\ (wpc = "ret" /\ wfail \in {"insert", "ctx", "commit"})
       => (werr # NilErr /\ RowsOf(wreq.result) = {})
  /\ (wpc = "ret" /\ txState = "committed")
       => Cardinality(RowsOf(wreq.result)) = Len(wreq.result.readings)

\* a call with two readings failed on its second insert
C1_Witness ==
  /\ wpc = "ret"
  /\ wfail = "insert"
  /\ wi = 2
  /\ Len(wreq.result.readings) = 2
  /\ Len(dbSamples) > 0

\* C2: a StoreSweepResult call whose connection, transaction, inserts and
\* commit all succeeded returns a nil error.
C2_CommitReturnsNil ==
  (wpc = "ret" /\ txState = "committed" /\ wfail = "none") => werr = NilErr

\* ---------------------------------------------------------------------
\* C4: one BeginSampling caller at a time
\* ---------------------------------------------------------------------
AliveChildren(d) == {c \in cfg.callers : DevOf(c) = d /\ sess[c].child = "running"}

\* the sampling sessions of the device overlap in time: both children were
\* started and neither coordinator has finished
Overlapping(c1, c2) ==
  /\ c1 # c2
  /\ DevOf(c1) = DevOf(c2)
  /\ sess[c1].child # "none" /\ sess[c1].co \in {"none", "collect", "finish"}
  /\ sess[c2].child # "none" /\ sess[c2].co \in {"none", "collect", "finish"}

\* C4: for any interleaving of concurrent BeginSampling calls on one device,
\* two child processes of the device are never alive at the same time and no
\* two calls whose sessions overlap both spawn a child.
C4_OneCallerAtATime ==
  /\ Cardinality(AliveChildren(1)) <= 1
  /\ \A c1, c2 \in cfg.callers : ~Overlapping(c1, c2)

\* ---------------------------------------------------------------------
\* C6: Stop
\* ---------------------------------------------------------------------
\* C6: every Stop call returns without panic, and when a Stop issued on a
\* sampling device returns, the child is gone, all three tasks of the device
\* have completed and IsSampling() is false.
C6_StopSafe ==
  /\ panicked # "Stop: nil cancel function"
  /\ \A t \in cfg.stoppers : stop[t].quiet # "no"

\* ---------------------------------------------------------------------
\* C7: parse-error budget
\* ---------------------------------------------------------------------
RECURSIVE TrailingBad(_)
\* parse failures at the end of the lines read so far with no successfully
\* parsed line between them (blank lines are not parsed at all)
TrailingBad(kinds) ==
  IF kinds = <<>> THEN 0
  ELSE LET k == kinds[Len(kinds)]
           rest == SubSeq(kinds, 1, Len(kinds) - 1)
       IN  IF k = "good" THEN 0
           ELSE IF k = "bad" THEN 1 + TrailingBad(rest)
           ELSE TrailingBad(rest)

NumBad(kinds) == Cardinality({i \in 1..Len(kinds) : kinds[i] = "bad"})

Stopped(c) == sess[c].co \in {"send", "close", "end"}

\* C8: once the coordinator is past its collection loop, the stdout reader,
\* the stderr reader and the exit-waiter have all signalled and the sampling
\* flag is cleared; the sampling-stopped channel delivers at most one value,
\* made of every error the tasks reported, and it is closed after that value,
\* or without a value when no task reported an error.
C8_StoppedAfterTasks ==
  \A c \in cfg.callers :
    /\ Stopped(c) =>
         /\ sess[c].tso = "done" /\ sess[c].tse = "done" /\ sess[c].tw = "done"
         /\ sess[c].done = <<>>
         /\ ~dev[DevOf(c)].isSampling
         /\ Range(sess[c].errs) = sess[c].reported
         /\ Len(sess[c].errs) = Cardinality(sess[c].reported)
    /\ Len(sess[c].ssVal) <= 1
    /\ sess[c].ssVal # <<>> => (Stopped(c) /\ sess[c].ssVal[1] = sess[c].errs)
    /\ sess[c].ssClosed =>
         /\ Stopped(c)
         /\ (sess[c].ssVal = <<>>) <=> (sess[c].reported = {})

\* the channel delivered the join of two errors and was closed
C8_Witness ==
  \E c \in cfg.callers :
    /\ sess[c].ssClosed
    /\ Len(sess[c].ssVal) = 1
    /\ Cardinality(sess[c].reported) >= 2

\* ---------------------------------------------------------------------
\* C3: the orchestrator joins its tasks
\* ---------------------------------------------------------------------
\* sweeps sent to the fan-in channel by all devices
SentCount ==
  Cardinality(UNION {{<<c, i>> : i \in 1..Len(sess[c].sent)} : c \in cfg.callers})

RunReturned == orch.rpc \in {"ret", "exited"}

\* C3: when Run has returned, the consumer has terminated, nothing is left in
\* the fan-in channel, every sweep a device sent has been handed to
\* StoreSweepResult and that call has returned; the consumer never enters
\* StoreSweepResult after Run has returned.
C3_AllJoined ==
  /\ RunReturned =>
       /\ orch.cpc \in {"none", "exit"}
       /\ samplesCh = <<>>
       /\ orch.nstored = SentCount
       /\ wpc \in {"idle", "ret"}
  /\ ~orch.lateStore

\* ---------------------------------------------------------------------
\* C5: cancellation stops everything
\* ---------------------------------------------------------------------
DeviceStopped(d) ==
  /\ sess[d].child # "running"
  /\ sess[d].tso \in {"none", "done"}
  /\ sess[d].tse \in {"none", "done"}
  /\ sess[d].tw \in {"none", "done"}
  /\ sess[d].co \in {"none", "close", "end"}
  /\ orch.gpc[d] \in {"none", "done"}

AllStopped == RunReturned /\ \A d \in cfg.callers : DeviceStopped(d)

\* C5: once the parent context is cancelled, eventually every child is gone,
\* the three tasks of every device have signalled, every coordinator has
\* joined them, every device goroutine has returned and Run has returned.
C5_CancelStopsAll == orch.parentDone ~> AllStopped

\* the parent context was cancelled while both children were sweeping, both
\* were killed and everything stopped
C5_Witness ==
  /\ orch.parentDone
  /\ AllStopped
  /\ cfg.callers = Devices
  /\ \A d \in Devices : sess[d].child = "killed" /\ sess[d].co = "end"

\* ---------------------------------------------------------------------
\* C11: Flush and IsFull
\* ---------------------------------------------------------------------
\* the number of elements a Flush of a buffer of size n removes
FlushSize(n, capacity, flushCount) ==
  Min2(n, flushCount + Max2(0, n - capacity))

\* C11: a Flush of a buffer of size n > 0 returns the first
\* min(n, flushCount + max(0, n - capacity)) elements in buffer order and
\* leaves the others in their order (capacity - flushCount of them when the
\* buffer held exactly capacity elements); IsFull is true exactly when the
\* size has reached the capacity.
C11_FlushContract ==
  [][/\ IsFull(sb) <=> (Size(sb) >= sb.capacity)
     /\ (lastOp' = "flush" /\ Len(sb.list) > 0) =>
          LET n == Len(sb.list)
              k == FlushSize(n, sb.capacity, sb.flushCount)
          IN  /\ out' = SubSeq(sb.list, 1, k)
              /\ sb'.list = SubSeq(sb.list, k + 1, n)
              /\ (n = sb.capacity) => (Size(sb') = sb.capacity - sb.flushCount)]_vars

\* capacity 3, flushCount 2, three sweeps inserted, then Flush: two sweeps
\* returned, one left
C11_Witness ==
  /\ lastOp = "flush"
  /\ nblocks = 1
  /\ nins = 3
  /\ sb.capacity = 3 /\ sb.flushCount = 2
  /\ Len(out) = 2
  /\ Size(sb) = 1

\* C11, literal scenario: after the three sweeps of
\* TestFrequencyBuffer_FlushBehavior the buffer is full, and the first Flush
\* returns the sweeps starting at 5.0006e9 and 5.0008e9 and leaves one.
C11_Literal ==
  /\ (pool = {} /\ lastOp = "insert") => IsFull(sb)
  /\ (pool = {} /\ lastOp = "flush" /\ nblocks = 1) =>
       (Starts(out) = FlushTestExpected /\ Size(sb) = 1)

\* buffers that hold more than their capacity get flushed
C11_ExcessFlushed ==
  lastOp = "flush" /\ nblocks = 1 /\ nins > sb.capacity /\ Len(out) > sb.flushCount

\* ---------------------------------------------------------------------
\* Span reader: what the client's loop receives
\* ---------------------------------------------------------------------
\* ids of the persisted rows held by a sequence of points, in order
IsPersisted(p) == p.row # 0

PersistedIds(points) ==
  LET kept == SelectSeq(points, IsPersisted)
  IN  [i \in 1..Len(kept) |-> kept[i].row]

\* ids of the persisted rows of a sequence of spans, in order
RECURSIVE DeliveredIds(_)
DeliveredIds(spans) ==
  IF spans = <<>> THEN <<>>
  ELSE PersistedIds(Head(spans).samples) \o DeliveredIds(Tail(spans))

MatchingIds == [i \in 1..Len(reader.matching) |-> reader.matching[i].id]

\* no rows.Next or Scan failure, no cancelled context and no Close so far
ReaderUndisturbed ==
  /\ reader.pc # "none"
  /\ reader.rowsErr = NilErr
  /\ reader.err \in {NilErr, ErrNoData}
  /\ ~reader.ctxDone
  /\ ~reader.rowsNil

\* the client's loop `for Next() { Current() }` has ended
LoopEnded == reader.pc = "ret" /\ ~reader.ret

CountTrue(s) == Cardinality({i \in 1..Len(s) : s[i]})

\* C12: over a reader with at least one matching row, the loop
\* `for Next() { Current() }` receives every span, the last one included,
\* exactly once: when the rows are exhausted Next returns true once and
\* records ErrNoData, every later Next returns false, and Error() is nil.
C12_EndOfStream ==
  (ReaderUndisturbed /\ reader.matching # <<>>) =>
    /\ \A i \in 1..Len(reader.rets), j \in 1..Len(reader.rets) :
         (i < j /\ ~reader.rets[i]) => ~reader.rets[j]
    /\ Error(reader) = NilErr
    /\ LET ids == DeliveredIds(reader.delivered)
       IN  /\ Len(ids) <= Len(MatchingIds)
           /\ ids = SubSeq(MatchingIds, 1, Len(ids))
    /\ (reader.pc = "ret" /\ reader.ret /\ reader.rows = <<>>
          /\ ~reader.nextSampleExists) => reader.err = ErrNoData
    /\ (reader.err = ErrNoData) =>
         /\ reader.rows = <<>>
         /\ CountTrue(reader.rets) >= 1
         /\ DeliveredIds(reader.delivered
                         \o (IF reader.pc = "ret" /\ reader.ret
                             THEN <<reader.currentSpan>> ELSE <<>>))
              = MatchingIds
    /\ LoopEnded =>
         /\ reader.err = ErrNoData
         /\ DeliveredIds(reader.delivered) = MatchingIds
         /\ Len(reader.delivered) = CountTrue(reader.rets)
         /\ \A i \in 1..Len(reader.delivered) :
              reader.delivered[i].samples # <<>>

\* the loop took two spans, ended, and a later Next returned false again
C12_Witness ==
  /\ ReaderUndisturbed
  /\ LoopEnded
  /\ reader.err = ErrNoData
  /\ Len(reader.delivered) = 2
  /\ reader.extra >= 1
  /\ Len(reader.rets) >= 4

\* the grid of a reader: minFreq, minFreq + binWidth, ... up to maxFreq
Grid(lo, hi, binWidth) ==
  [i \in 1..(((hi - lo) \div binWidth) + 1) |-> lo + (i - 1) * binWidth]

FrequenciesOf(points) == [i \in 1..Len(points) |-> points[i].frequency]

\* the persisted rows of a span are strictly ascending in frequency
\* (one sweep, no row twice)
OneSweep(span) ==
  LET kept == SelectSeq(span.samples, IsPersisted)
  IN  \A i \in 1..(Len(kept) - 1) : kept[i].frequency < kept[i + 1].frequency

\* the row a persisted point was scanned from
RowOf(p) == CHOOSE r \in Range(reader.matching) : r.id = p.row

\* every point of the span carries its row's power, or power 0 when it
\* is synthetic
PowersKept(span) ==
  \A i \in 1..Len(span.samples) :
    LET p == span.samples[i]
    IN  IF IsPersisted(p) THEN p.power = RowOf(p).power
        ELSE p.power = SqlVal(0)

\* C13: with the effective bounds minFreq..maxFreq every span the reader
\* returns holds exactly one point for each grid frequency, ascending;
\* persisted points keep their power, all others are synthetic with
\* power 0 (the gap in front of a sample stops short of the sample).
C13_GapFill ==
  ReaderUndisturbed =>
    \A k \in 1..Len(reader.delivered) :
      LET span == reader.delivered[k]
      IN  OneSweep(span) =>
            /\ FrequenciesOf(span.samples)
                 = Grid(reader.minFreq, reader.maxFreq, 1)
            /\ PowersKept(span)

\* what the reader does give: every grid frequency is covered, in
\* non-descending order, and the powers are as claimed
C13_CoversGrid ==
  ReaderUndisturbed =>
    \A k \in 1..Len(reader.delivered) :
      LET span == reader.delivered[k]
          fs == FrequenciesOf(span.samples)
      IN  OneSweep(span) =>
            /\ Range(fs) = Range(Grid(reader.minFreq, reader.maxFreq, 1))
            /\ \A i \in 1..(Len(fs) - 1) : fs[i] <= fs[i + 1]
            /\ PowersKept(span)

\* the span of the scenario: bounds 100..500, one row at 300
C13_LiteralSpan ==
  /\ reader.matching = GapFillTable
  /\ reader.minFreq = 100 /\ reader.maxFreq = 500
  /\ Len(reader.delivered) = 1

\* the delivered span that holds the persisted row id (0 when none does)
SpanIndexOf(id) ==
  LET ks == {k \in 1..Len(reader.delivered) :
               \E i \in 1..Len(reader.delivered[k].samples) :
                 reader.delivered[k].samples[i].row = id}
  IN  IF ks = {} THEN 0 ELSE CHOOSE k \in ks : TRUE

\* rows i, i+1 of the result set between which the frequency descends
Descents ==
  {i \in 1..(Len(reader.matching) - 1) :
     reader.matching[i + 1].frequency < reader.matching[i].frequency}

\* a new span begins exactly at each row whose frequency is lower than
\* the previous row's
SpansSplitAtDescents ==
  /\ Len(reader.delivered) = Cardinality(Descents) + 1
  /\ \A i \in 1..(Len(reader.matching) - 1) :
       LET a == SpanIndexOf(reader.matching[i].id)
           b == SpanIndexOf(reader.matching[i + 1].id)
       IN  IF i \in Descents THEN b = a + 1 ELSE b = a

RolloverRun == reader.matching = RolloverTable /\ reader.minFreq = 100

\* C14 (as stated): rows at 100, 200, 300, 100, 200 MHz read without
\* filters give exactly two spans, of lengths 3 and 2; in general a new
\* span begins exactly at each row whose frequency is lower than the
\* previous row's.
C14_Rollover ==
  (ReaderUndisturbed /\ LoopEnded /\ reader.matching # <<>>) =>
    /\ SpansSplitAtDescents
    /\ RolloverRun =>
         /\ Len(reader.delivered) = 2
         /\ Len(reader.delivered[1].samples) = 3
         /\ Len(reader.delivered[2].samples) = 2

\* C14 (amended): the rows give exactly two spans, which hold the first
\* three and the last two persisted rows, each among the synthetic points
\* that fill 100..300 MHz; in general a new span begins exactly at each
\* row whose frequency is lower than the previous row's.
C14_RolloverAmended ==
  (ReaderUndisturbed /\ LoopEnded /\ reader.matching # <<>>) =>
    /\ SpansSplitAtDescents
    /\ RolloverRun =>
         /\ Len(reader.delivered) = 2
         /\ PersistedIds(reader.delivered[1].samples) = <<1, 2, 3>>
         /\ PersistedIds(reader.delivered[2].samples) = <<4, 5>>
         /\ Len(reader.delivered[1].samples) > 3
         /\ Len(reader.delivered[2].samples) > 2
         /\ \A k \in 1..2 :
              /\ reader.delivered[k].frequencyStart = 100
              /\ reader.delivered[k].frequencyEnd = 300

\* the scenario was read to its end
C14_Witness ==
  /\ ReaderUndisturbed /\ LoopEnded /\ RolloverRun
  /\ Len(reader.delivered) = 2

\* ---------------------------------------------------------------------
\* Orchestrator: fatal device errors
\* ---------------------------------------------------------------------
\* the goroutine of device d has ended after BeginSampling returned an error
StartFailed(d) ==
  orch.gpc[d] = "done" /\ sess[d].bpc \in {"rejected", "failed"}

\* the goroutine of device d has ended after it received an error on the
\* sampling-stopped channel
RuntimeFailed(d) == orch.gpc[d] = "done" /\ sess[d].bpc = "got"

DeviceFailed(d) == StartFailed(d) \/ RuntimeFailed(d)

\* C15: whenever a device goroutine has ended with a fatal error, be it a
\* failed start or an error received on the sampling-stopped channel, the
\* shared context is cancelled and eventually every device has shut down
\* and Run has returned.
C15_FatalCancelsAll ==
  (\E d \in cfg.callers : DeviceFailed(d)) ~> (ctxDone /\ AllStopped)

\* a failed start does cancel the shared context
C15_StartFailureCancels ==
  (\E d \in cfg.callers : StartFailed(d)) ~> (ctxDone /\ AllStopped)

\* a device goroutine has ended with a runtime error while the shared
\* context is not cancelled and another device keeps sampling
C15_OtherKeepsSampling ==
  \E d \in cfg.callers, e \in cfg.callers :
    /\ RuntimeFailed(d) /\ ~ctxDone
    /\ e # d /\ sess[e].child = "running"

\* C16: when Run has returned after one or more devices failed fatally
\* (failed start or an error received on a sampling-stopped channel), its
\* result is a non-nil error; a nil result means that no device failed.
C16_RunReportsErrors ==
  (RunReturned /\ \E d \in cfg.callers : DeviceFailed(d)) =>
    orch.runErr # NilErr

\* Run returned nil although the only device reported a runtime error
C16_ErrorLost ==
  /\ RunReturned
  /\ orch.runErr = NilErr
  /\ \E d \in cfg.callers : RuntimeFailed(d) /\ sess[d].ssVal # <<>>

\* ---------------------------------------------------------------------
\* Orchestrator: telemetry attachment
\* ---------------------------------------------------------------------
\* C17: StoreSweepResult is called exactly once for every sweep taken from
\* the fan-in; the call carries the id of the telemetry row when a provider
\* is installed, Get() returned a snapshot and the insert succeeded, and no
\* telemetry id when there is no provider, Get() returned nil or the insert
\* failed.
C17_TelemetryAttachment ==
  /\ orch.nstored = (IF orch.cpc = "telemetry" /\ panicked = "none"
                      THEN tel.taken - 1 ELSE tel.taken)
  /\ (orch.cpc = "store") =>
       wreq.telemetryID = (IF tel.outcome = "ok" THEN Len(tel.table)
                           ELSE NoTelemetry)

\* a sweep was taken from the fan-in and never reached StoreSweepResult
C17_SweepLost == panicked # "none" /\ tel.taken > orch.nstored

\* Get() returned a snapshot, the insert failed and the sweep went to
\* StoreSweepResult without a telemetry id
C17_InsertFailed ==
  /\ orch.cpc = "store" /\ tel.outcome = "failed"
  /\ wreq.telemetryID = NoTelemetry

\* with the store as it is no sweep ever carries a telemetry id
C17_NeverAttached == (orch.cpc = "store") => wreq.telemetryID = NoTelemetry

\* ---------------------------------------------------------------------
\* Parsing and persisting readings
\* ---------------------------------------------------------------------
NumPowerFields == Len(PowerFields(parser.line))

\* the line was parsed without error
ParsedOk == parser.pc \in {"parsed", "stored"} /\ parser.err = NilErr

\* StoreSweepResult has returned for the sweep of the line and no step
\* of it failed
StoredOk ==
  parser.pc = "stored" /\ wpc = "ret" /\ wfail = "none"

\* C18: every power field of a successfully parsed line gives exactly one
\* PowerReading (a field that does not parse gives isValid = false and
\* power 0), and every PowerReading of a stored sweep gives exactly one
\* row of table samples (NULL power for an invalid one): the rows of a
\* sweep are as many as the power fields of its line. Both families.
C18_NoReadingDropped ==
  /\ ParsedOk =>
       /\ Len(parser.sweep.readings) = NumPowerFields
       /\ \A i \in 1..Len(parser.sweep.readings) :
            LET r == parser.sweep.readings[i]
            IN  /\ r.isValid = (PowerFields(parser.line)[i] = "ok")
                /\ ~r.isValid => r.power = 0
  /\ StoredOk =>
       /\ Len(dbSamples) = NumPowerFields
       /\ \A i \in 1..Len(dbSamples) :
            dbSamples[i].power.valid = parser.sweep.readings[i].isValid

\* the same for lines of the rtl handler only
C18_RtlKeepsInvalid == (parser.family = "rtl") => C18_NoReadingDropped

\* a hackrf line with a power field that does not parse was stored with
\* fewer rows than it has power fields
C18_HackRFDropped ==
  /\ parser.family = "hackrf" /\ StoredOk
  /\ Len(dbSamples) < NumPowerFields

\* ---------------------------------------------------------------------
\* BeginSampling: a failed start
\* ---------------------------------------------------------------------
\* the call of c has started nothing and handed out no channel
NothingStarted(c) ==
  /\ sess[c].child = "none"
  /\ sess[c].tso = "none" /\ sess[c].tse = "none" /\ sess[c].tw = "none"
  /\ sess[c].co = "none"
  /\ sess[c].ssVal = <<>> /\ ~sess[c].ssClosed

\* BeginSampling of c fails in this step (pipe or start failure)
StartFails(c) == sess[c].bpc = "start" /\ sess'[c].bpc = "failed"

\* C19: when the stdout pipe, the stderr pipe or the start of the child
\* fails, BeginSampling returns an error and no channel, has started no
\* task, and leaves the device idle: IsSampling() is false, nothing of the
\* device is running, and the next BeginSampling call is admitted.
C19_FailedStartIdle ==
  [][\A c \in cfg.callers :
       /\ StartFails(c) =>
            /\ NothingStarted(c)'
            /\ ~dev'[DevOf(c)].isSampling
            /\ DeviceQuiet(DevOf(c))'
       /\ (sess[c].bpc = "idle" /\ sess'[c].bpc # "idle"
             /\ DeviceQuiet(DevOf(c))
             /\ \E b \in cfg.callers : sess[b].bpc = "failed")
            => sess'[c].bpc = "store"]_vars

\* the same without the demand that nothing else of the device is running
C19_FlagCleared ==
  [][\A c \in cfg.callers :
       StartFails(c) =>
         /\ NothingStarted(c)'
         /\ ~dev'[DevOf(c)].isSampling]_vars

\* a start failed while the child of another call on the device runs
C19_FailedWhileSampling ==
  \E c \in cfg.callers, b \in cfg.callers :
    /\ sess[c].bpc = "failed" /\ ~dev[DevOf(c)].isSampling
    /\ b # c /\ sess[b].child = "running"

\* a call was admitted after the call before it had failed to start
C19_Readmitted ==
  \E c \in cfg.callers, b \in cfg.callers :
    /\ sess[b].bpc = "failed" /\ sess[c].bpc = "store"
    /\ ~dev[DevOf(c)].isSampling

\* ---------------------------------------------------------------------
\* The buffer: domain errors
\* ---------------------------------------------------------------------
\* C20: NewFrequencyBuffer(capacity, flushCount) returns an error and no
\* buffer when capacity <= 0, flushCount <= 0 or flushCount > capacity, and
\* an empty buffer with these parameters and no error otherwise; Insert(nil)
\* returns an error and leaves size, contents and band edges as they were;
\* Flush and Drain of an empty buffer return nil and change nothing.
C20_DomainErrors ==
  /\ [](lastOp = "new" =>
         IF \/ newArgs.capacity <= 0
            \/ newArgs.flushCount <= 0
            \/ newArgs.flushCount > newArgs.capacity
           THEN bufErr # NilErr /\ sb = NoBuffer
           ELSE /\ bufErr = NilErr
                /\ sb # NoBuffer
                /\ Size(sb) = 0
                /\ sb.capacity = newArgs.capacity
                /\ sb.flushCount = newArgs.flushCount)
  /\ [][/\ lastOp' = "insert nil" =>
            /\ bufErr' # NilErr
            /\ Size(sb') = Size(sb)
            /\ sb'.list = sb.list
            /\ sb'.baseFreq = sb.baseFreq
            /\ sb'.maxFreq = sb.maxFreq
            /\ sb'.binWidth = sb.binWidth
       /\ (lastOp' \in {"flush", "drain"} /\ Size(sb) = 0) =>
            /\ out' = <<>>
            /\ sb' = sb]_vars

\* Insert(nil) was refused by a buffer that holds sweeps and has found its
\* band edges
C20_Witness ==
  /\ lastOp = "insert nil"
  /\ bufErr = ErrNilSweep
  /\ Size(sb) > 0
  /\ sb.baseFreq < sb.maxFreq

\* NewFrequencyBuffer refused a flushCount above a positive capacity
C20_Refused ==
  /\ lastOp = "new"
  /\ newArgs.capacity > 0
  /\ newArgs.flushCount > newArgs.capacity
  /\ bufErr = ErrBufferParams

\* Flush or Drain returned nil on an empty buffer
C20_EmptyFlushed ==
  /\ lastOp \in {"flush", "drain"}
  /\ out = <<>>
  /\ Size(sb) = 0
  /\ nins = 0

\* ---------------------------------------------------------------------
\* Sessions: uniqueness
\* ---------------------------------------------------------------------
\* the insert of call c runs in this step against a row of the same device
\* and the same start time
DuplicateInsert(c) ==
  /\ cs.call[c].pc = "exec" /\ cs'.call[c].pc = "ret"
  /\ \E i \in 1..Len(cs.rows) :
       /\ cs.rows[i].device_id = cs.call[c].deviceID
       /\ cs.rows[i].start_time = cs.now

C21_LaterSession ==
  \E i \in 1..Len(cs.rows), j \in 1..Len(cs.rows) :
    /\ cs.rows[i].device_id = cs.rows[j].device_id
    /\ cs.rows[i].start_time < cs.rows[j].start_time

\* ---------------------------------------------------------------------
\* Args: the dump-to-stdout sentinel
\* ---------------------------------------------------------------------
ArgsReturned == conf.pc = "args" /\ conf.err = NilErr

LastArg == conf.args[Len(conf.args)]

\* C22: for every valid configuration of either family, Args returns an
\* argument list whose last element is the sentinel "-".
C22_StdoutSentinel ==
  ArgsReturned => (Len(conf.args) > 0 /\ LastArg = "-")

\* C22 as amended: the argument list of an RTL device ends with "-"; that of
\* a HackRF device starts with the band, holds no "-" and no output file
\* option -r, so hackrf_sweep writes to its standard output.
C22_StdoutAmended ==
  ArgsReturned =>
    /\ Len(conf.args) >= 2 /\ conf.args[1] = "-f"
    /\ (conf.family = "rtl-sdr") => (LastArg = "-")
    /\ (conf.family = "hackrf") =>
         \A i \in 1..Len(conf.args) : conf.args[i] \notin {"-", "-r"}

\* an RTL configuration with every option set was turned into arguments
C22_Witness ==
  /\ ArgsReturned
  /\ conf.family = "rtl-sdr"
  /\ conf.config.BiasTee /\ conf.config.Interval > 0
  /\ Len(conf.args) = 26
  /\ LastArg = "-"

\* a valid HackRF configuration was turned into arguments
C22_HackRFArgs ==
  /\ ArgsReturned
  /\ conf.family = "hackrf"
  /\ conf.config.NumSweeps > 0
  /\ LastArg = "3"

\* ---------------------------------------------------------------------
\* The rtl parser: what a line yields
\* ---------------------------------------------------------------------
Numeric(field) == field.kind \in {"int", "float"}

\* the line has its six header fields and each parses as its position asks
HeaderParses(line) ==
  /\ Len(line) >= 6
  /\ line[1].kind = "date" /\ line[2].kind = "time"
  /\ Numeric(line[3]) /\ Numeric(line[4]) /\ Numeric(line[5])
  /\ line[6].kind = "int"

\* C23: a line of at least 7 fields with a parseable header yields a sweep
\* with the line's timestamp, low and high frequency, bin width and sample
\* count and one reading per power field in field order, the i-th with
\* frequency low + i*bin + bin/2 and valid exactly when its token is
\* numeric; any other line yields an error and no sweep.
C23_ParserResult ==
  (parser.pc = "parsed") =>
    LET line == parser.line
        sw == parser.sweep
    IN  IF Len(line) >= 7 /\ HeaderParses(line)
          THEN /\ parser.err = NilErr
               /\ sw.timestamp = line[1].v * 100 + line[2].v
               /\ sw.startFrequency = line[3].v
               /\ sw.endFrequency = line[4].v
               /\ sw.binWidth = line[5].v
               /\ sw.numSamples = line[6].v
               /\ Len(sw.readings) = Len(line) - 6
               /\ \A i \in 0..(Len(line) - 7) :
                    /\ 2 * sw.readings[i + 1].frequency
                         = 2 * line[3].v + 2 * i * line[5].v + line[5].v
                    /\ sw.readings[i + 1].isValid <=> Numeric(line[7 + i])
          ELSE /\ parser.err # NilErr
               /\ sw = NoSweep

\* a line of two power fields, the first numeric and the second not, was
\* parsed to a sweep whose high frequency is not low + n*bin
C23_Witness ==
  /\ parser.pc = "parsed" /\ parser.err = NilErr
  /\ Len(parser.line) = 8
  /\ parser.sweep.startFrequency = 100 /\ parser.sweep.endFrequency = 250
  /\ parser.sweep.readings[1].isValid /\ ~parser.sweep.readings[2].isValid
  /\ parser.sweep.readings[2].frequency = 103

\* a line whose sample count is not an integer was refused
C23_Refused ==
  /\ parser.pc = "parsed" /\ parser.err = "invalid number of samples"
  /\ Len(parser.line) >= 7
  /\ parser.line[6].kind = "float"

\* ---------------------------------------------------------------------
\* The stdout reader: nothing parsed is lost
\* ---------------------------------------------------------------------
\* how often each chunk position occurs in a sequence of sweeps
Occurrences(sweeps) ==
  [f \in {sweeps[i].startFrequency : i \in 1..Len(sweeps)} |->
     Cardinality({i \in 1..Len(sweeps) : sweeps[i].startFrequency = f})]

StdoutFinished(c) == sess[c].tso = "done"

\* C24: when the stdout reader of a device has finished, for whatever
\* reason, every sweep it parsed has been sent to the sink exactly once and
\* the attached buffer is empty.
C24_NoSweepLost ==
  \A c \in cfg.callers :
    StdoutFinished(c) =>
      /\ Occurrences(sess[c].sent) = Occurrences(sess[c].parsed)
      /\ Size(dev[DevOf(c)].buffer) = 0

\* the same for a reader that finished at the end of the stream
C24_NoSweepLostAtEOF ==
  \A c \in cfg.callers :
    (StdoutFinished(c) /\ ErrTooManyParseErrors \notin sess[c].reported) =>
      /\ Occurrences(sess[c].sent) = Occurrences(sess[c].parsed)
      /\ Size(dev[DevOf(c)].buffer) = 0

\* the reader finished at the end of the stream after a Flush and a Drain
C24_Drained ==
  \E c \in cfg.callers :
    /\ StdoutFinished(c) /\ sess[c].reported = {}
    /\ Len(sess[c].sent) = 3

\* the reader stopped at the threshold with a sweep left in the buffer
C24_LeftInBuffer ==
  \E c \in cfg.callers :
    /\ StdoutFinished(c) /\ ErrTooManyParseErrors \in sess[c].reported
    /\ Size(dev[DevOf(c)].buffer) > 0

\* ---------------------------------------------------------------------
\* The stream of a device with a buffer attached
\* ---------------------------------------------------------------------
\* the chunks parsed so far are chunks of one sweep: no position twice
OneSweepParsed(c) ==
  \A i \in 1..Len(sess[c].parsed), j \in 1..Len(sess[c].parsed) :
    (sess[c].parsed[i].startFrequency = sess[c].parsed[j].startFrequency) => i = j

\* C25: with a buffer attached, the stream sent to the sink (the Flush
\* blocks and the final Drain, one after the other) follows the frequency
\* order within a sweep: no chunk of a sweep is sent after a chunk of the
\* same sweep of higher frequency, in whatever order the chunks arrived.
C25_StreamOrder ==
  \A c \in cfg.callers :
    OneSweepParsed(c) =>
      \A i \in 1..Len(sess[c].sent), j \in 1..Len(sess[c].sent) :
        (i < j) => (sess[c].sent[i].startFrequency
                      <= sess[c].sent[j].startFrequency)

\* both chunks of the sweep were in the buffer before the first was sent
C25_BothBuffered ==
  [][\A c \in cfg.callers :
       (Len(sess[c].sent) = 0 /\ Len(sess'[c].sent) = 1 /\ OneSweepParsed(c)
          /\ Len(sess[c].parsed) = 2)
         => (Len(sess[c].outq) + Size(dev[DevOf(c)].buffer) = 2)]_vars

\* the chunks arrived in ascending order and were sent in descending order
C25_Reversed ==
  \E c \in cfg.callers :
    /\ Len(sess[c].parsed) = 2 /\ Len(sess[c].sent) = 2
    /\ sess[c].parsed[1].startFrequency < sess[c].parsed[2].startFrequency
    /\ sess[c].sent[1].startFrequency > sess[c].sent[2].startFrequency

\* ---------------------------------------------------------------------
\* The buffer: temporal consistency
\* ---------------------------------------------------------------------
\* neighbours in buffer order that are chunks of one sweep: the frequency
\* rises from the first to the second
SameSweepNeighbours(list, i) ==
  list[i].startFrequency < list[i + 1].startFrequency

\* C26: after any sequence of Inserts the timestamps of the chunks of one
\* sweep do not decrease along buffer order: each chunk's timestamp is at
\* least that of the chunk before it.
C26_TemporalConsistency ==
  \A i \in 1..(Len(sb.list) - 1) :
    SameSweepNeighbours(sb.list, i) =>
      (sb.list[i].timestamp <= sb.list[i + 1].timestamp)

\* a chunk of the pool was given the timestamp of its predecessor plus one
C26_Rewritten ==
  \E i \in 2..Len(sb.list) :
    /\ sb.list[i].timestamp = MaxTs + 1
    /\ sb.list[i - 1].timestamp = MaxTs

\* a later chunk was pushed in front of an earlier chunk of its sweep
C26_PushedFront ==
  /\ lastOp = "insert" /\ nins = 2 /\ Len(sb.list) = 2
  /\ sb.list[1].startFrequency + 1 = sb.list[2].startFrequency
  /\ sb.list[1].timestamp > sb.list[2].timestamp

\* ---------------------------------------------------------------------
\* Span reader: frequency order inside a span
\* ---------------------------------------------------------------------
\* C27: every span the reader returns is a strictly increasing frequency
\* run: each point's frequency is greater than that of the point before
\* it, whether the points are persisted rows or synthetic gap fill.
C27_IncreasingRun ==
  \A k \in 1..Len(reader.delivered) :
    LET samples == reader.delivered[k].samples
    IN  \A i \in 1..(Len(samples) - 1) :
          samples[i].frequency < samples[i + 1].frequency

\* what the reader does give: the frequency never descends inside a span
C27_NonDescending ==
  \A k \in 1..Len(reader.delivered) :
    LET samples == reader.delivered[k].samples
    IN  \A i \in 1..(Len(samples) - 1) :
          samples[i].frequency <= samples[i + 1].frequency

\* two consecutive persisted rows of equal frequency share a span
C27_EqualRows ==
  \E k \in 1..Len(reader.delivered) :
    LET samples == reader.delivered[k].samples
    IN  \E i \in 1..(Len(samples) - 1) :
          /\ IsPersisted(samples[i]) /\ IsPersisted(samples[i + 1])
          /\ samples[i].frequency = samples[i + 1].frequency

\* a synthetic point sits in front of a persisted point of its frequency
C27_FillOnSample ==
  \E k \in 1..Len(reader.delivered) :
    LET samples == reader.delivered[k].samples
    IN  \E i \in 1..(Len(samples) - 1) :
          /\ ~IsPersisted(samples[i]) /\ IsPersisted(samples[i + 1])
          /\ samples[i].frequency = samples[i + 1].frequency

\* ---------------------------------------------------------------------
\* Span reader: conservation of the persisted rows
\* ---------------------------------------------------------------------
\* the persisted points of a sequence of spans, in order
RECURSIVE PersistedPoints(_)
PersistedPoints(spans) ==
  IF spans = <<>> THEN <<>>
  ELSE SelectSeq(Head(spans).samples, IsPersisted)
         \o PersistedPoints(Tail(spans))

\* the rows of the result set as points, in query order
MatchingPoints ==
  [i \in 1..Len(reader.matching) |-> ScanPoint(reader.matching[i])]

\* spans that hold the persisted row id
SpansHolding(id) ==
  {k \in 1..Len(reader.delivered) :
     \E i \in 1..Len(reader.delivered[k].samples) :
       reader.delivered[k].samples[i].row = id}

\* C28: once the loop `for Next() { Current() }` has ended undisturbed,
\* every row of the result set is in exactly one returned span, exactly
\* once, with its persisted frequency, power and bin width and in query
\* order; the row that ended a span opens the next one, and the last span
\* holds the last row.
C28_RowConservation ==
  (ReaderUndisturbed /\ LoopEnded) =>
    /\ PersistedPoints(reader.delivered) = MatchingPoints
    /\ \A i \in 1..Len(reader.matching) :
         Cardinality(SpansHolding(reader.matching[i].id)) = 1
    /\ \A i \in Descents :
         LET k == SpanIndexOf(reader.matching[i + 1].id)
         IN  /\ k = SpanIndexOf(reader.matching[i].id) + 1
             /\ SelectSeq(reader.delivered[k].samples, IsPersisted)[1].row
                  = reader.matching[i + 1].id
             /\ reader.delivered[k].timestamp
                  = reader.matching[i + 1].timestamp
    /\ reader.matching # <<>> =>
         SpanIndexOf(reader.matching[Len(reader.matching)].id)
           = Len(reader.delivered)

\* a complete iteration over three rows with a rollover after the second:
\* the third row was deferred and is the only row of the second span
C28_Witness ==
  /\ ReaderUndisturbed /\ LoopEnded
  /\ Len(reader.matching) = 3
  /\ Descents = {2}
  /\ Len(reader.delivered) = 2
  /\ PersistedIds(reader.delivered[1].samples) = <<1, 2>>
  /\ PersistedIds(reader.delivered[2].samples) = <<3>>
  /\ \E i \in 1..3 : ~reader.matching[i].power.valid

\* ---------------------------------------------------------------------
\* The sampling flag across sessions
\* ---------------------------------------------------------------------
\* the child of session c is alive or one of its three tasks is running
SessionLive(c) ==
  \/ sess[c].child = "running"
  \/ sess[c].tso \notin {"none", "done"}
  \/ sess[c].tse \notin {"none", "done"}
  \/ sess[c].tw \notin {"none", "done"}

\* C29: IsSampling() is true whenever the child or one of the three tasks
\* of a session of the device is running, and a Stop that has returned
\* waited for every session of the device, a newer one included.
C29_FlagTracksSession ==
  /\ \A c \in cfg.callers : SessionLive(c) => dev[1].isSampling
  /\ \A t \in cfg.stoppers : stop[t].pc = "ret" => stop[t].quiet # "no"

\* a session whose BeginSampling has returned without a Stop in flight
\* keeps its flag up as long as it is live
C29_UndisturbedFlag ==
  \A c \in cfg.callers :
    (SessionLive(c) /\ nstops = 0) => dev[1].isSampling

\* Stop cancelled the first session, the second session started while
\* Stop waited, and Stop cleared the flag and returned with the second
\* session's child running and its context not cancelled
C29_NewerSessionCleared ==
  /\ stop[1].pc = "ret" /\ stop[1].quiet = "no" /\ nstops = 1
  /\ sess[1].co = "end" /\ sess[1].ctxDone
  /\ sess[2].child = "running" /\ sess[2].bpc = "waiting"
  /\ ~sess[2].ctxDone
  /\ ~dev[1].isSampling

\* ---------------------------------------------------------------------
\* A task's fatal error ends the session
\* ---------------------------------------------------------------------
\* a task of the session has reported an error and the child still runs
FatalWhileRunning ==
  /\ sess[1].reported # {}
  /\ sess[1].child = "running"

\* the session has stopped: context cancelled, child gone, the three tasks
\* complete, flag cleared, and the joined errors, which hold every error a
\* task reported, delivered once on the closed sampling-stopped channel
StoppedWithError ==
  /\ sess[1].ctxDone
  /\ ChildGone(1)
  /\ sess[1].tso = "done" /\ sess[1].tse = "done" /\ sess[1].tw = "done"
  /\ sess[1].co = "end"
  /\ ~dev[1].isSampling /\ dev[1].wg = 0
  /\ sess[1].ssClosed
  /\ Len(sess[1].ssVal) = 1
  /\ sess[1].reported \subseteq Range(sess[1].ssVal[1])
  /\ sess[1].bpc = "got"

\* C30: when a task reports an error while the child is still running,
\* the device context is cancelled, the child is killed (unless it exits
\* by itself first), the other two tasks complete and the device
\* eventually stops with the error delivered on the sampling-stopped
\* channel.
C30_FatalErrorTerminates ==
  /\ FatalWhileRunning ~> (sess[1].ctxDone /\ ChildGone(1))
  /\ FatalWhileRunning ~> StoppedWithError

\* the stdout reader stopped at the parse-error threshold with the child
\* running; the child was killed and the session stopped with that error
C30_Witness ==
  /\ StoppedWithError
  /\ sess[1].child = "killed"
  /\ ErrTooManyParseErrors \in sess[1].reported
  /\ Len(sess[1].consumed) = ParseErrorsThreshold

\* a failing read of the stderr pipe ended the session the same way
C30_StderrFailure ==
  /\ StoppedWithError
  /\ sess[1].child = "killed"
  /\ ErrBrokenPipeStderr \in sess[1].reported

\* ---------------------------------------------------------------------
\* The consumer and the session map
\* ---------------------------------------------------------------------
\* the session Run created for a device (its row is keyed by the device)
SessionOf(deviceID) == deviceID

\* C31: every sweep the consumer persists is stored under the session that
\* Run created for the sweep's device: StoreSweepResult is never entered
\* with session id 0, with another device's session, or with an id looked
\* up after Run cleared the session map.
C31_OwnSession ==
  (orch.rpc # "none" /\ orch.cpc = "store") =>
    /\ wreq.sessionID # 0
    /\ wreq.sessionID = SessionOf(wreq.result.deviceID)

\* as long as Run has not cleared the map the consumer finds the session
C31_BeforeClear ==
  (orch.rpc \notin {"none", "ret", "exited"} /\ orch.cpc = "store") =>
    wreq.sessionID = SessionOf(wreq.result.deviceID)

\* Run has returned and the consumer stores a sweep under session 0
C31_StoredUnderZero ==
  /\ orch.rpc = "ret" /\ orch.sessions = {}
  /\ orch.cpc = "store" /\ wreq.sessionID = 0
  /\ wreq.result.deviceID = 1

\* ---------------------------------------------------------------------
\* The fan-in channel is closed after the last send
\* ---------------------------------------------------------------------
\* the stdout reader of device d can send no more: it was never started
\* or it has reported its result
LastSendDone(d) == sess[d].tso \in {"none", "done"} /\ sess[d].outq = <<>>

\* C32: no task sends on the fan-in channel after Run has closed it: when
\* a device goroutine has reported completion to Run, the device's stdout
\* reader has performed its last send, so Run closes the channel only
\* after every reader is through.
C32_NoSendAfterClose ==
  orch.rpc # "none" =>
    /\ panicked # "send on closed channel"
    /\ \A d \in cfg.callers : orch.gpc[d] = "done" => LastSendDone(d)
    /\ samplesClosed => \A d \in cfg.callers : LastSendDone(d)

\* Run closed the channel after a device that sent every line its child
\* wrote was cancelled from outside and stopped
C32_Witness ==
  /\ samplesClosed
  /\ orch.parentDone
  /\ sess[1].child = "killed"
  /\ Len(sess[1].sent) = MaxOrchLines
  /\ orch.gpc[1] = "done"
  /\ panicked = "none"

\* the channel was closed after BeginSampling had failed for a device
C32_AfterStartFailure ==
  /\ samplesClosed
  /\ \E d \in cfg.callers : sess[d].bpc = "failed" /\ orch.gpc[d] = "done"

\* ---------------------------------------------------------------------
\* Sessions first, then the gate, then sampling
\* ---------------------------------------------------------------------
\* BeginSampling has been called on device d
BeginCalled(d) == sess[d].bpc # "none"

\* Run is past the loop that creates the sessions and has not cleared them
SessionsInUse ==
  orch.rpc \in {"consumer", "spawn", "gate", "wait", "cancel", "close", "clear"}

\* C33: no device calls BeginSampling before a session has been recorded
\* for every registered device and before the gate is opened; the gate is
\* opened once, after every device goroutine has been spawned; when
\* CreateSession fails, Run returns that error and no device ever starts.
C33_GateAfterSessions ==
  orch.rpc # "none" =>
    /\ \A d \in cfg.callers : BeginCalled(d) => orch.gate
    /\ SessionsInUse => orch.sessions = cfg.callers
    /\ orch.gate <=> (\/ orch.rpc \in {"wait", "cancel", "close", "clear"}
                      \/ orch.rpc \in {"ret", "exited"} /\ orch.runErr = NilErr)
    /\ orch.gate => \A d \in cfg.callers : orch.gpc[d] # "none"
    /\ orch.runErr # NilErr =>
         /\ orch.rpc \in {"ret", "exited"}
         /\ \A d \in cfg.callers :
              ~BeginCalled(d) /\ orch.gpc[d] = "none" /\ sess[d].child = "none"

\* two devices: both sessions recorded, both goroutines spawned, the gate
\* opened, and both devices sampling
C33_Witness ==
  /\ cfg.callers = Devices
  /\ orch.gate /\ orch.rpc = "wait"
  /\ orch.sessions = Devices
  /\ \A d \in Devices : sess[d].child = "running"

\* CreateSession failed for the second device after the first had its
\* session: Run returned the error
C33_SessionFailed ==
  /\ cfg.callers = Devices
  /\ orch.sessions = {1}
  /\ orch.rpc = "ret" /\ orch.runErr # NilErr

\* ---------------------------------------------------------------------
\* StoreTelemetry: the values bound and the columns of the statement
\* ---------------------------------------------------------------------
\* part_018 123-138: the columns of insertTelemetrySQL, one placeholder each
insertTelemetryColumns ==
  <<"session_id", "timestamp", "latitude", "longitude", "altitude", "roll",
    "pitch", "yaw", "accel_x", "accel_y", "accel_z", "radio_rssi">>

\* store.go 325-340: the fields of telemetryData handed to ExecContext
storeTelemetryValues ==
  <<"session_id", "timestamp", "latitude", "longitude", "altitude", "roll",
    "pitch", "yaw", "accel_x", "accel_y", "accel_z", "ground_speed",
    "ground_course", "radio_rssi">>

\* StoreTelemetry has returned for the sweep the consumer works on
TelemetryReturned == tel.provider /\ tel.outcome # "none"

\* C34: StoreTelemetry for an existing session and a non-nil snapshot
\* inserts exactly one telemetry row with every field of the snapshot and
\* returns its id: the values bound match the columns of the insert
\* statement one for one, so the statement itself never fails the call.
C34_TelemetryRow ==
  TelemetryReturned =>
    /\ storeTelemetryValues = insertTelemetryColumns
    /\ Len(storeTelemetryValues) = TelemetryArgs
    /\ Len(insertTelemetryColumns) = TelemetryPlaceholders
    /\ tel.outcome = "ok" =>
         /\ tel.table # <<>>
         /\ tel.table[Len(tel.table)] = tel.sessionID

\* every StoreTelemetry call of a run fails and table telemetry stays empty
C34_NeverInserted == tel.table = <<>> /\ tel.outcome # "ok"

\* StoreTelemetry was called with a snapshot for a session that exists
C34_Called ==
  /\ TelemetryReturned
  /\ tel.sessionID = 1 /\ 1 \in orch.sessions
  /\ tel.outcome = "failed"

\* ---------------------------------------------------------------------
\* The snapshot handed to StoreTelemetry
\* ---------------------------------------------------------------------
\* C35: the snapshot handed to StoreTelemetry is the one that was tested to
\* be non-nil: StoreTelemetry is never called with a nil snapshot, whatever
\* the provider returns on later calls.
C35_TestedSnapshot ==
  tel.provider => panicked # "nil pointer dereference"

\* the first Get() returned a snapshot for the sweep, the second returned
\* nil and StoreTelemetry dereferenced it
C35_NilSnapshot ==
  /\ tel.provider
  /\ orch.cpc = "telemetry" /\ tel.cur.deviceID = 1
  /\ panicked = "nil pointer dereference"

\* with a provider whose first answer is nil, StoreTelemetry is not called
C35_NilSkipsTelemetry ==
  (tel.provider /\ orch.cpc = "store" /\ tel.outcome = "none") =>
    wreq.telemetryID = NoTelemetry

\* ---------------------------------------------------------------------
\* The buffer: the threshold between the two ordering rules
\* ---------------------------------------------------------------------
\* strict ascending frequency: x belongs after y unless its order is lower
StrictOrder(b, x, y) ==
  IF getSweepOrder(b, x) >= getSweepOrder(b, y) THEN 1 ELSE -1

\* the low-half/high-half rule: a low-half chunk starts the next sweep and
\* belongs after every high-half chunk; within one half the order decides
RolloverOrder(b, x, y) ==
  IF InLowHalf(b, x) = InLowHalf(b, y) THEN StrictOrder(b, x, y)
  ELSE IF InLowHalf(b, x) THEN 1 ELSE -1

\* the buffer has seen a chunk, so its band and bin width are set
BandKnown == sb.binWidth > 0 /\ sb.maxFreq > sb.baseFreq

\* C36: the buffer orders strictly by ascending frequency exactly when the
\* discovered band is less than 5 chunks wide, and by the low-half/high-half
\* rollover rule whenever the band is 5 or more chunks wide.
C36_ThresholdGuard ==
  BandKnown =>
    \A x \in SlotChunks, y \in SlotChunks :
      compareSweepOrder(sb, x, y)
        = (IF BandChunks(sb) < minSpectrumChunksThreshold
             THEN StrictOrder(sb, x, y)
             ELSE RolloverOrder(sb, x, y))

\* what the buffer does: strict order up to and including 5 chunks, the
\* rollover rule from 6 chunks on
C36_GuardAsCoded ==
  BandKnown =>
    \A x \in SlotChunks, y \in SlotChunks :
      compareSweepOrder(sb, x, y)
        = (IF BandChunks(sb) <= minSpectrumChunksThreshold
             THEN StrictOrder(sb, x, y)
             ELSE RolloverOrder(sb, x, y))

\* a band of exactly 5 chunks in which the first chunk is ordered before
\* the last although it lies in the low half
C36_AtThreshold ==
  /\ BandKnown
  /\ BandChunks(sb) = minSpectrumChunksThreshold
  /\ sb.baseFreq = 0
  /\ InLowHalf(sb, Chunk(0, 1)) /\ ~InLowHalf(sb, Chunk(4, 1))
  /\ compareSweepOrder(sb, Chunk(0, 1), Chunk(4, 1)) = -1

\* ---------------------------------------------------------------------
\* The buffer: chunks of equal frequency
\* ---------------------------------------------------------------------
RemoveAt(list, k) == SubSeq(list, 1, k - 1) \o SubSeq(list, k + 1, Len(list))

\* an Insert step that leaves the buffer in strict-frequency mode
FallbackInsert ==
  /\ lastOp' = "insert" /\ nins' = nins + 1
  /\ BandChunks(sb') < minSpectrumChunksThreshold

\* the element at position k is the one the step inserted and no element
\* behind it has its order key
InsertedBehindEquals(k) ==
  /\ RemoveAt(sb'.list, k) = sb.list
  /\ \A j \in (k + 1)..Len(sb'.list) :
       getSweepOrder(sb', sb'.list[j]) # getSweepOrder(sb', sb'.list[k])

\* C37: in strict-frequency mode ties are broken FIFO: every Insert places
\* the new chunk behind every stored chunk of the same order key, at the
\* head of the buffer and behind other elements alike.
C37_TiesFIFO ==
  [][FallbackInsert => \E k \in 1..Len(sb'.list) : InsertedBehindEquals(k)]_vars

\* a tie with the head is broken FIFO
C37_HeadTieFIFO ==
  [][(FallbackInsert /\ Len(sb.list) = 1)
       => \E k \in 1..Len(sb'.list) : InsertedBehindEquals(k)]_vars

\* chunk 1 with timestamp 2 sits in front of chunk 1 with timestamp 1,
\* which can only have been inserted before it
C37_LaterFirst ==
  /\ nins = 3
  /\ sb.list = <<Chunk(0, 1), Chunk(1, 2), Chunk(1, 1)>>

\* ---------------------------------------------------------------------
\* A device without a buffer: what is sent
\* ---------------------------------------------------------------------
GoodCount(kinds) == Cardinality({i \in 1..Len(kinds) : kinds[i] = "good"})

\* the stdout reader is between two lines or has finished
BetweenLines == sess[1].tso \in {"scan", "final", "done"}

\* C38: without a buffer the sweeps a device sends are exactly its
\* successfully parsed stdout lines in arrival order: none dropped,
\* duplicated or reordered; blank and unparsable lines contribute nothing,
\* and each sweep is sent before the next line is read.
C38_UnbufferedStream ==
  /\ Len(sess[1].sent) <= Len(sess[1].parsed)
  /\ sess[1].sent = SubSeq(sess[1].parsed, 1, Len(sess[1].sent))
  /\ Len(sess[1].parsed) = GoodCount(sess[1].consumed)
  /\ Len(sess[1].parsed) - Len(sess[1].sent) <= 1
  /\ BetweenLines => sess[1].sent = sess[1].parsed

\* the child wrote chunk 1, a blank line, a line that does not parse and
\* chunk 0; the reader finished having sent chunk 1 and then chunk 0
C38_Witness ==
  /\ sess[1].tso = "done"
  /\ sess[1].consumed = <<"good", "blank", "bad", "good">>
  /\ Starts(sess[1].sent) = <<1, 0>>

\* ---------------------------------------------------------------------
\* The buffer inside the device loop is bounded
\* ---------------------------------------------------------------------
\* the block the reader is sending was flushed after the last Insert
SendingFlush == sess[1].tso = "send" /\ sess[1].tnext = "scan"

\* C39: under the loop's discipline (Insert, then Flush whenever IsFull)
\* the buffer never holds more than capacity elements and holds fewer than
\* capacity after each line has been processed, for every capacity >= 1
\* and flushCount in 1..capacity.
C39_BoundedInLoop ==
  LET b == dev[1].buffer IN
  /\ Size(b) < b.capacity
  /\ SendingFlush =>
       /\ Size(b) + Len(sess[1].outq) <= b.capacity
       /\ Len(sess[1].outq) <= b.flushCount

\* a buffer of the largest capacity with flushCount 1 after it filled up
\* and was flushed: one chunk sent, capacity - 1 chunks kept
C39_Witness ==
  LET b == dev[1].buffer IN
  /\ b.capacity = MaxCapacity /\ b.flushCount = 1
  /\ Len(sess[1].parsed) = MaxCapacity
  /\ Len(sess[1].sent) = 1
  /\ Size(b) = MaxCapacity - 1
  /\ sess[1].tso = "scan"

\* ---------------------------------------------------------------------
\* The buffer: what Insert changes
\* ---------------------------------------------------------------------
\* an Insert of a non-nil sweep
InsertStep == lastOp' = "insert" /\ nins' = nins + 1

\* element k of the new list is a chunk of the pool, at most its timestamp
\* changed, and the other elements are the old list, untouched
OnlyAdded(k) ==
  /\ RemoveAt(sb'.list, k) = sb.list
  /\ \E c \in pool : [sb'.list[k] EXCEPT !.timestamp = c.timestamp] = c

\* C40: Insert of a non-nil sweep always adds exactly one element,
\* whatever the buffer holds and however full it is, leaves the order and
\* the timestamps of the stored elements unchanged and changes at most the
\* timestamp of the sweep it inserts; capacity and flushCount stay.
C40_InsertFrame ==
  [][InsertStep =>
       /\ Len(sb'.list) = Len(sb.list) + 1
       /\ \E k \in 1..Len(sb'.list) : OnlyAdded(k)
       /\ sb'.capacity = sb.capacity /\ sb'.flushCount = sb.flushCount]_vars

\* an Insert into a buffer already above its capacity went in, behind an
\* element with a later timestamp, and had its timestamp rewritten
C40_Witness ==
  /\ lastOp = "insert"
  /\ Len(sb.list) = MaxInserts /\ Len(sb.list) > sb.capacity + 1
  /\ \E i \in 2..Len(sb.list) :
       /\ sb.list[i].timestamp = MaxTs + 1
       /\ sb.list[i - 1].timestamp = MaxTs

============================================================================
